---- MODULE Spec2Model ----
(***************************************************************************)
(* Mind_Bloom: postpartum-depression risk triage service.                  *)
(*                                                                         *)
(* A model of the feature-derivation and prediction-serving pipeline       *)
(* (feature_derivation.py, main.py), the attribution engine                *)
(* (shap_explainer.py and its local-history revision) and the outcome      *)
(* feedback store (database.py).                                           *)
(*                                                                         *)
(* Python values are modelled as records [t, n, s]: t is the Python type,  *)
(* n the number (floats in thousandths), s the string.  A dict is a        *)
(* sequence of [k, v] entries in insertion order.  Strings are TLA+        *)
(* strings, handled character by character (Len, SubSeq, \o).              *)
(***************************************************************************)
EXTENDS Integers, Sequences, FiniteSets, TLC

VARIABLES
    user_inputs,      \* feature derivation: the answer set handed to derive_all_features
    derived,          \* feature derivation: its outcome, NotRun before the call
    model,            \* main.model: the classifier loaded at import
    collect_data,     \* the COLLECT_DATA environment setting
    shap_import,      \* how `import shap` ends in this deployment
    shap_version,     \* the revision of shap_explainer.py that is deployed
    started,          \* initialize_shap_explainer has run
    shap_explainer,   \* shap_explainer._shap_explainer
    explainer_type,   \* shap_explainer._explainer_type (revision only)
    shap_model,       \* shap_explainer._model is set
    feature_names,    \* shap_explainer._feature_names (revision only)
    init_attempts,    \* the strategies tried while the explainer was built
    inbox,            \* the requests in flight to the service, oldest first
    resp,             \* the response of the last request served
    steps,            \* the calls the last request made, in order, with their outcomes
    predictions_log,  \* data/predictions_log.csv, one entry per row
    handed_frame,     \* the frame predict_minimal handed to model.predict for the last request
    instance,         \* attribution: the frame and top_k handed to get_shap_values
    explained,        \* attribution: what get_shap_values returned for it
    request_attempts, \* attribution: the strategies tried for it
    predictions,      \* the predictions table, rows in insertion order
    feedback,         \* the feedback table, rows in insertion order
    write_locked,     \* a connection left open by a failed insert holds the write lock
    last_call,        \* the last call into the store, with its return value
    feedback_calls,   \* the session ids save_feedback has been called for
    workers,          \* concurrent save_prediction calls: position and arguments of each
    lock_holder,      \* the worker whose open transaction holds the write lock, 0 if none
    follow_up_schedules, \* the follow_up_schedules table, rows in insertion order
    tracked,          \* the response of the last predict_with_tracking request
    labeled,          \* what get_predictions_with_feedback returned last
    enc_request,      \* encoding: the feature name and raw value handed to encode_categorical
    enc_result,       \* encoding: the codes it returned for the value and its variants
    user_feedback,    \* data/user_feedback.csv, one entry per row
    training_set,     \* what load_feedback_data returned last
    startup_pc,       \* start-up: the statement of startup_event that runs next
    observers,        \* start-up: what each request thread read of the explainer globals
    today,            \* the day of the clock, counted from the service's first day
    reminders,        \* the follow-up reminders handed to send_email_reminder / send_sms_reminder
    config_file,      \* scheduler_config.json: absent, or the dict it holds
    scheduler,        \* scheduler._scheduler: whether it is set, and its jobs by id
    schedule_call,    \* the last call into the schedule functions, with what it returned
    router_config,    \* LLMRouter._config
    router_adapter,   \* LLMRouter._adapter, by its provider_name
    fallback_handler, \* LLMRouter._fallback_handler
    chat_reply        \* what the last LLMRouter.chat call returned, and the calls it made

derivationVars == <<user_inputs, derived>>

explainerVars ==
    << shap_import, shap_version, started, shap_explainer, explainer_type, shap_model,
       feature_names, init_attempts >>

servingVars == <<model, collect_data, inbox, resp, steps, predictions_log, handed_frame>>

attributionVars == <<instance, explained, request_attempts>>

storeVars == <<predictions, feedback, write_locked, last_call, feedback_calls>>

workerVars == <<workers, lock_holder>>

trackingVars == <<follow_up_schedules, tracked, labeled>>

encodingVars == <<enc_request, enc_result>>

feedbackLogVars == <<user_feedback, training_set>>

startupVars == <<startup_pc, observers>>

\* the state of start-up and of the background services
reminderVars == <<today, reminders>>

scheduleVars == <<config_file, scheduler, schedule_call>>

routerVars == <<router_config, router_adapter, fallback_handler, chat_reply>>

serviceVars == <<startupVars, reminderVars, scheduleVars, routerVars>>

vars ==
    << user_inputs, derived, model, collect_data, shap_import, shap_version, started,
       shap_explainer, explainer_type, shap_model, feature_names, init_attempts, inbox,
       resp, steps, predictions_log, handed_frame, instance, explained, request_attempts, predictions,
       feedback, write_locked, last_call, feedback_calls, workers, lock_holder,
       follow_up_schedules, tracked, labeled, enc_request, enc_result, user_feedback,
       training_set, startup_pc, observers, today, reminders,
       config_file, scheduler, schedule_call,
       router_config, router_adapter, fallback_handler, chat_reply >>

(***************************************************************************)
(* Python values                                                           *)
(***************************************************************************)
FloatScale == 10 * 10 * 10

PyNone == [t |-> "none", n |-> 0, s |-> ""]

PyInt(k) == [t |-> "int", n |-> k, s |-> ""]

PyFloat(m) == [t |-> "float", n |-> m, s |-> ""]

PyStr(x) == [t |-> "str", n |-> 0, s |-> x]

IsStr(v) == v.t = "str"

IsNone(v) == v.t = "none"

IsNumber(v) == v.t \in {"int", "float"}

Entry(key, val) == [k |-> key, v |-> val]

(***************************************************************************)
(* Python string methods                                                   *)
(***************************************************************************)
UpperLetters == "ABCDEFGHIJKLMNOPQRSTUVWXYZ"

LowerLetters == "abcdefghijklmnopqrstuvwxyz"

Digits == "0123456789"

CharAt(str, i) == SubSeq(str, i, i)

IsSpace(c) == c \in {" ", "\t", "\n"}

DigitSet == {CharAt(Digits, i) : i \in 1..Len(Digits)}

IsDigit(c) == c \in DigitSet

DigitVal(c) == (CHOOSE i \in 1..Len(Digits) : CharAt(Digits, i) = c) - 1

\* upper-case letter -> lower-case letter
LowerOf == [c \in {CharAt(UpperLetters, i) : i \in 1..Len(UpperLetters)} |->
              CharAt(LowerLetters, CHOOSE i \in 1..Len(UpperLetters) : CharAt(UpperLetters, i) = c)]

LowerChar(c) == IF c \in DOMAIN LowerOf THEN LowerOf[c] ELSE c

\* str.lower()
RECURSIVE Lower(_)
Lower(str) ==
    IF str = "" THEN ""
    ELSE LowerChar(CharAt(str, 1)) \o Lower(SubSeq(str, 2, Len(str)))

UpperChar(c) ==
    IF \E i \in 1..Len(LowerLetters) : CharAt(LowerLetters, i) = c
    THEN CharAt(UpperLetters, CHOOSE i \in 1..Len(LowerLetters) : CharAt(LowerLetters, i) = c)
    ELSE c

\* str.upper()
RECURSIVE Upper(_)
Upper(str) ==
    IF str = "" THEN ""
    ELSE UpperChar(CharAt(str, 1)) \o Upper(SubSeq(str, 2, Len(str)))

RECURSIVE LStrip(_)
LStrip(str) ==
    IF str = "" THEN ""
    ELSE IF IsSpace(CharAt(str, 1)) THEN LStrip(SubSeq(str, 2, Len(str)))
    ELSE str

RECURSIVE RStrip(_)
RStrip(str) ==
    IF str = "" THEN ""
    ELSE IF IsSpace(CharAt(str, Len(str))) THEN RStrip(SubSeq(str, 1, Len(str) - 1))
    ELSE str

\* str.strip()
Strip(str) == RStrip(LStrip(str))

\* needle in hay
Contains(hay, needle) ==
    \/ needle = ""
    \/ \E i \in 1..(Len(hay) - Len(needle) + 1) :
          SubSeq(hay, i, i + Len(needle) - 1) = needle

RECURSIVE DigitsToNat(_)
DigitsToNat(str) ==
    IF str = "" THEN 0
    ELSE DigitsToNat(SubSeq(str, 1, Len(str) - 1)) * 10 + DigitVal(CharAt(str, Len(str)))

AllDigits(str) == str # "" /\ \A i \in 1..Len(str) : IsDigit(CharAt(str, i))

RECURSIVE NatToStr(_)
NatToStr(k) ==
    IF k < 10 THEN CharAt(Digits, k + 1)
    ELSE NatToStr(k \div 10) \o CharAt(Digits, (k % 10) + 1)

IntToStr(k) == IF k < 0 THEN "-" \o NatToStr(-k) ELSE NatToStr(k)

\* the digits of a float's fraction, in thousandths, trailing zeros dropped
FracToStr(m) ==
    IF m % 100 = 0 THEN NatToStr(m \div 100)
    ELSE IF m % 10 = 0 THEN NatToStr(m \div 100) \o NatToStr((m \div 10) % 10)
    ELSE NatToStr(m \div 100) \o NatToStr((m \div 10) % 10) \o NatToStr(m % 10)

Abs(k) == IF k < 0 THEN -k ELSE k

\* truncation toward zero, as int(float) does
Trunc(m) == IF m < 0 THEN -((-m) \div FloatScale) ELSE m \div FloatScale

\* str(v)
py_str(v) ==
    CASE v.t = "str" -> v.s
      [] v.t = "none" -> "None"
      [] v.t = "int" -> IntToStr(v.n)
      [] v.t = "float" ->
            (IF v.n < 0 THEN "-" ELSE "") \o NatToStr(Abs(v.n) \div FloatScale)
                \o "." \o FracToStr(Abs(v.n) % FloatScale)

\* int(v): [ok, n]; ok = FALSE stands for the TypeError / ValueError int() raises
py_int(v) ==
    CASE v.t = "int" -> [ok |-> TRUE, n |-> v.n]
      [] v.t = "float" -> [ok |-> TRUE, n |-> Trunc(v.n)]
      [] v.t = "none" -> [ok |-> FALSE, n |-> 0]
      [] v.t = "str" ->
            LET body == Strip(v.s)
                neg == body # "" /\ CharAt(body, 1) = "-"
                signed == body # "" /\ CharAt(body, 1) \in {"-", "+"}
                digs == IF signed THEN SubSeq(body, 2, Len(body)) ELSE body
            IN IF AllDigits(digs)
               THEN [ok |-> TRUE, n |-> IF neg THEN -DigitsToNat(digs) ELSE DigitsToNat(digs)]
               ELSE [ok |-> FALSE, n |-> 0]

\* Python truthiness of a value
Truthy(v) ==
    CASE v.t = "none" -> FALSE
      [] v.t = "str" -> v.s # ""
      [] OTHER -> v.n # 0

(***************************************************************************)
(* Python dicts: sequences of entries with distinct keys                   *)
(***************************************************************************)
DictKeys(d) == {d[i].k : i \in 1..Len(d)}

DictHas(d, key) == key \in DictKeys(d)

\* d.get(key, dflt)
DictGet(d, key, dflt) ==
    IF DictHas(d, key)
    THEN d[CHOOSE i \in 1..Len(d) : d[i].k = key].v
    ELSE dflt

\* d[key] = val: in place for a key of d, appended otherwise
DictSet(d, key, val) ==
    IF DictHas(d, key)
    THEN [i \in 1..Len(d) |-> IF d[i].k = key THEN Entry(key, val) ELSE d[i]]
    ELSE Append(d, Entry(key, val))

\* {f(k): v for k, v in d.items()}: a later item replaces an earlier one
\* with the same new key, at the earlier one's place
RECURSIVE RekeyFrom(_, _, _)
RekeyFrom(d, i, acc) ==
    IF i > Len(d) THEN acc
    ELSE RekeyFrom(d, i + 1, DictSet(acc, Strip(Lower(d[i].k)), d[i].v))

(***************************************************************************)
(* feature_derivation.py                                                   *)
(***************************************************************************)
\* column name -> the table's (token, code) pairs in definition order
LABEL_ENCODINGS ==
       ("Education Level" :> << <<"college", 0>>, <<"high school", 1>>, <<"primary school", 2>>, <<"university", 3>> >>)
    @@ ("Husband's education level" :> << <<"college", 0>>, <<"high school", 1>>, <<"primary school", 2>>, <<"university", 3>> >>)
    @@ ("Total children" :> << <<"more than two", 0>>, <<"one", 1>>, <<"two", 2>> >>)
    @@ ("Disease before pregnancy" :> << <<"nan", 0>>, <<"chronic disease", 1>> >>)
    @@ ("Family type" :> << <<"joint", 0>>, <<"nuclear", 1>> >>)
    @@ ("Number of household members" :> << <<"2 to 5", 0>>, <<"6 to 8", 1>>, <<"9 or more", 2>> >>)
    @@ ("Relationship with the in-laws" :> << <<"bad", 0>>, <<"friendly", 1>>, <<"good", 2>>, <<"neutral", 3>>, <<"poor", 4>> >>)
    @@ ("Relationship with husband" :> << <<"bad", 0>>, <<"friendly", 1>>, <<"good", 2>>, <<"neutral", 3>>, <<"poor", 4>> >>)
    @@ ("Relationship with the newborn" :> << <<"bad", 0>>, <<"good", 1>>, <<"neutral", 2>>, <<"very good", 3>> >>)
    @@ ("Relationship between father and newborn" :> << <<"bad", 0>>, <<"good", 1>>, <<"neutral", 2>>, <<"very good", 3>> >>)
    @@ ("Feeling about motherhood" :> << <<"happy", 0>>, <<"neutral", 1>>, <<"sad", 2>> >>)
    @@ ("Recieved Support" :> << <<"high", 0>>, <<"low", 1>>, <<"medium", 2>> >>)
    @@ ("Need for Support" :> << <<"high", 0>>, <<"low", 1>>, <<"medium", 2>> >>)
    @@ ("Major changes or losses during pregnancy" :> << <<"no", 0>>, <<"yes", 1>> >>)
    @@ ("Abuse" :> << <<"nan", 0>>, <<"no", 1>>, <<"yes", 2>> >>)
    @@ ("Trust and share feelings" :> << <<"nan", 0>>, <<"no", 1>>, <<"yes", 2>> >>)
    @@ ("Pregnancy length" :> << <<"10 months", 0>>, <<"9 months", 1>>, <<"less than 5 months", 2>> >>)
    @@ ("Pregnancy plan" :> << <<"no", 0>>, <<"yes", 1>> >>)
    @@ ("Regular checkups" :> << <<"no", 0>>, <<"yes", 1>> >>)
    @@ ("Fear of pregnancy" :> << <<"no", 0>>, <<"yes", 1>> >>)
    @@ ("Diseases during pregnancy" :> << <<"nan", 0>>, <<"non chronic disease", 1>> >>)
    @@ ("Age of immediate older children" :> << <<"13yr or more", 0>>, <<"1yr to 3yr", 1>>, <<"4yr to 6yr", 2>>, <<"7yr to 12yr", 3>>, <<"nan", 4>> >>)
    @@ ("Birth compliancy" :> << <<"no", 0>>, <<"yes", 1>> >>)
    @@ ("Breastfeed" :> << <<"no", 0>>, <<"yes", 1>> >>)
    @@ ("Worry about newborn" :> << <<"no", 0>>, <<"yes", 1>> >>)
    @@ ("Relax/sleep when newborn is tended" :> << <<"no", 0>>, <<"yes", 1>> >>)
    @@ ("Relax/sleep when the newborn is asleep" :> << <<"no", 0>>, <<"yes", 1>> >>)
    @@ ("Angry after latest child birth" :> << <<"nan", 0>>, <<"afraid", 1>>, <<"tired", 2>>, <<"worried", 3>> >>)
    @@ ("Feeling for regular activities" :> << <<"nan", 0>>, <<"afraid", 1>>, <<"tired", 2>>, <<"worried", 3>> >>)
    @@ ("Depression before pregnancy (PHQ2)" :> << <<"negative", 0>>, <<"positive", 1>> >>)
    @@ ("Depression during pregnancy (PHQ2)" :> << <<"negative", 0>>, <<"positive", 1>> >>)
    @@ ("PHQ9 Result" :> << <<"mild", 0>>, <<"minimal", 1>>, <<"moderate", 2>>, <<"moderately severe", 3>>, <<"normal", 4>>, <<"severe", 5>> >>)

SetMin(S) == CHOOSE x \in S : \A y \in S : x <= y

SetMax(S) == CHOOSE x \in S : \A y \in S : x >= y

\* the value trimmed, with its letter case kept
value_lower_case_kept(value) == Strip(py_str(value))

\* value_lower = str(value).lower().strip()
value_lower(value) == Strip(Lower(py_str(value)))

\* the lookup with the last partial match taken instead of the first
encode_categorical_last_match(column_name, value) ==
    IF column_name \notin DOMAIN LABEL_ENCODINGS THEN 0
    ELSE LET encoding == LABEL_ENCODINGS[column_name]
             norm == value_lower(value)
             exact == {i \in 1..Len(encoding) : encoding[i][1] = norm}
             partial == {i \in 1..Len(encoding) :
                            \/ Contains(norm, encoding[i][1])
                            \/ Contains(encoding[i][1], norm)}
         IN IF exact # {} THEN encoding[SetMin(exact)][2]
            ELSE IF partial # {} THEN encoding[SetMax(partial)][2]
            ELSE 0

encode_categorical(column_name, value) ==
    IF column_name \notin DOMAIN LABEL_ENCODINGS THEN 0
    ELSE LET encoding == LABEL_ENCODINGS[column_name]
             norm == value_lower(value)
             exact == {i \in 1..Len(encoding) : encoding[i][1] = norm}
             partial == {i \in 1..Len(encoding) :
                            \/ Contains(norm, encoding[i][1])
                            \/ Contains(encoding[i][1], norm)}
         IN IF exact # {} THEN encoding[SetMin(exact)][2]
            ELSE IF partial # {} THEN encoding[SetMin(partial)][2]
            ELSE 0

PHQ9_QUESTIONS ==
    <<"phq9_q1", "phq9_q2", "phq9_q3", "phq9_q4", "phq9_q5",
      "phq9_q6", "phq9_q7", "phq9_q8", "phq9_q9">>

\* one pass of the loop body of compute_phq9_score: what the answer adds to total
phq9_answer(val) ==
    LET val_lower == Strip(Lower(val.s))
        parsed == py_int(val)
        num == IF ~IsStr(val) THEN val
               ELSE IF Contains(val_lower, "not at all") \/ val_lower = "0" THEN PyInt(0)
               ELSE IF Contains(val_lower, "several") \/ val_lower = "1" THEN PyInt(1)
               ELSE IF Contains(val_lower, "more than half") \/ val_lower = "2" THEN PyInt(2)
               ELSE IF Contains(val_lower, "nearly every") \/ val_lower = "3" THEN PyInt(3)
               ELSE IF parsed.ok THEN PyInt(parsed.n)
               ELSE PyInt(0)
    IN IF Truthy(num) THEN py_int(num).n ELSE 0

RECURSIVE phq9_total(_, _)
phq9_total(inputs, i) ==
    IF i = 0 THEN 0
    ELSE phq9_total(inputs, i - 1) + phq9_answer(DictGet(inputs, PHQ9_QUESTIONS[i], PyInt(0)))

\* [ok, n]: ok = FALSE when int(inputs["phq9_score"]) raises
compute_phq9_score(inputs) ==
    IF DictHas(inputs, "phq9_score") /\ ~IsNone(DictGet(inputs, "phq9_score", PyNone))
    THEN py_int(DictGet(inputs, "phq9_score", PyNone))
    ELSE [ok |-> TRUE, n |-> phq9_total(inputs, Len(PHQ9_QUESTIONS))]

\* a variant of get_yes_no that forgets the caller's default: an absent or
\* null answer reads as "yes"
get_yes_no_without_default(inputs, key, default) ==
    LET val == DictGet(inputs, key, PyStr("yes"))
    IN IF IsNone(val) THEN "yes" ELSE Strip(Lower(py_str(val)))

get_yes_no(inputs, key, default) ==
    LET val == DictGet(inputs, key, PyStr(default))
    IN IF IsNone(val) THEN default ELSE Strip(Lower(py_str(val)))

get_category(inputs, key, default, valid_options) ==
    LET val == DictGet(inputs, key, PyStr(default))
        norm == Strip(Lower(py_str(val)))
    IN IF IsNone(val) THEN default
       ELSE IF norm \notin valid_options THEN default
       ELSE norm

\* str.replace(old, new) for a whole-string token (the relationship categories
\* are single tokens, so the replacement is all or nothing)
replace_token(str, old, new) == IF str = old THEN new ELSE str

categorical_columns ==
    <<"Education Level", "Husband's education level", "Total children",
      "Disease before pregnancy", "Family type", "Number of household members",
      "Relationship with the in-laws", "Relationship with husband",
      "Relationship with the newborn", "Relationship between father and newborn",
      "Feeling about motherhood", "Recieved Support", "Need for Support",
      "Major changes or losses during pregnancy", "Abuse", "Trust and share feelings",
      "Pregnancy length", "Pregnancy plan", "Regular checkups", "Fear of pregnancy",
      "Diseases during pregnancy", "Age of immediate older children",
      "Birth compliancy", "Breastfeed", "Worry about newborn",
      "Relax/sleep when newborn is tended", "Relax/sleep when the newborn is asleep",
      "Angry after latest child birth", "Feeling for regular activities",
      "Depression before pregnancy (PHQ2)", "Depression during pregnancy (PHQ2)",
      "PHQ9 Result">>

categorical_set == {categorical_columns[i] : i \in 1..Len(categorical_columns)}

\* the encoding pass over the categorical columns
encode_features(features) ==
    [i \in 1..Len(features) |->
        IF features[i].k \in categorical_set /\ IsStr(features[i].v)
        THEN Entry(features[i].k, PyInt(encode_categorical(features[i].k, features[i].v)))
        ELSE features[i]]

\* the re-bucketing of the household size after the encoding pass
household_bucket(household) ==
    IF household <= 5 THEN 0
    ELSE IF household <= 8 THEN 1
    ELSE 2

\* outcomes of a call of derive_all_features
NotRun == [outcome |-> "not_run", features |-> <<>>]

Raised == [outcome |-> "raised", features |-> <<>>]

Returned(features) == [outcome |-> "returned", features |-> features]

YesNo(cond) == PyStr(IF cond THEN "yes" ELSE "no")

Flag(cond) == PyInt(IF cond THEN 1 ELSE 0)

\* the bands with each boundary score moved into the band above it
phq9_band_boundaries_above(phq9_score) ==
    IF phq9_score < 4 THEN "minimal"
    ELSE IF phq9_score < 9 THEN "mild"
    ELSE IF phq9_score < 14 THEN "moderate"
    ELSE IF phq9_score < 19 THEN "moderately severe"
    ELSE "severe"

\* the categorical reading of the PHQ-9 total
phq9_band(phq9_score) ==
    IF phq9_score <= 4 THEN "minimal"
    ELSE IF phq9_score <= 9 THEN "mild"
    ELSE IF phq9_score <= 14 THEN "moderate"
    ELSE IF phq9_score <= 19 THEN "moderately severe"
    ELSE "severe"

\* the flag read from the answer alone
history_flag_from_answer(depression_history, phq9_score) ==
    IF depression_history = "yes" THEN 1 ELSE 0

\* features["depression_history_flag"]
history_flag(depression_history, phq9_score) ==
    IF depression_history = "yes" \/ phq9_score >= 10 THEN 1 ELSE 0

\* a relationship score without the middle level
relationship_score_two_levels(rel) ==
    IF rel \in {"good", "very good", "friendly"} THEN FloatScale ELSE 0

relationship_score(rel) ==
    IF rel \in {"good", "very good", "friendly"} THEN FloatScale
    ELSE IF rel = "neutral" THEN FloatScale \div 2
    ELSE 0

\* derive_all_features: Returned(features), or Raised when one of the three
\* int() conversions at the top of the function raises
\* the feature dict before encoding, from the normalised answers and the
\* three numeric inputs
feature_dict(inputs, age, num_pregnancies, phq9_score) ==
    LET education == Strip(Lower(py_str(DictGet(inputs, "education_level", PyStr("college")))))
        pregnancy_loss == get_yes_no(inputs, "history_of_pregnancy_loss", "no")
        complications == get_yes_no(inputs, "pregnancy_complications", "no")
        depression_history == get_yes_no(inputs, "depression_history", "no")
        major_changes == get_yes_no(inputs, "major_changes", "no")
        fear_pregnancy == get_yes_no(inputs, "fear_pregnancy", "no")
        abuse == get_yes_no(inputs, "abuse", "no")
        worry_newborn == get_yes_no(inputs, "worry_newborn", "no")
        trust_share == get_yes_no(inputs, "trust_share_feelings", "yes")
        breastfeed == get_yes_no(inputs, "breastfeed", "yes")
        relationship_husband ==
            get_category(inputs, "relationship_husband", "good",
                         {"good", "neutral", "bad", "friendly", "poor"})
        relationship_inlaws ==
            get_category(inputs, "relationship_inlaws", "neutral",
                         {"good", "neutral", "bad", "friendly", "poor"})
        family_support == get_category(inputs, "family_support", "medium", {"high", "medium", "low"})
        feeling_motherhood ==
            get_category(inputs, "feeling_motherhood", "neutral", {"happy", "neutral", "sad"})
        family_type == get_category(inputs, "family_type", "nuclear", {"nuclear", "joint"})
        total_children ==
            get_category(inputs, "total_children", "one", {"one", "two", "more than two"})
        pregnancy_length ==
            get_category(inputs, "pregnancy_length", "9 months",
                         {"10 months", "9 months", "less than 5 months"})
        phq9_result == phq9_band(phq9_score)
        household_members ==
            IF family_type = "joint" THEN 6
            ELSE IF total_children = "more than two" THEN 5
            ELSE IF total_children = "two" THEN 4
            ELSE 3
        emotional_state ==
            IF phq9_score >= 15 THEN "worried"
            ELSE IF phq9_score >= 10 THEN "tired"
            ELSE IF phq9_score >= 5 THEN "afraid"
            ELSE "nan"
        newborn_rel ==
            IF feeling_motherhood = "happy" /\ family_support = "high" THEN "very good"
            ELSE IF feeling_motherhood = "sad" THEN "neutral"
            ELSE "good"
        older_children_age ==
            IF num_pregnancies = 1 THEN "nan"
            ELSE IF num_pregnancies <= 3 THEN "1yr to 3yr"
            ELSE "4yr to 6yr"
        good_sleep == YesNo(phq9_score < 10)
        dep_status ==
            IF depression_history = "yes" \/ phq9_score >= 10 THEN "positive" ELSE "negative"
        high_parity_risk == IF num_pregnancies >= 4 THEN 1 ELSE 0
        history_loss_flag == IF pregnancy_loss = "yes" THEN 1 ELSE 0
        abuse_flag == IF abuse = "yes" THEN 1 ELSE 0
        depression_history_flag == history_flag(depression_history, phq9_score)
        husband_score == relationship_score(relationship_husband)
        inlaws_score == relationship_score(relationship_inlaws)
        support_score ==
            IF family_support = "high" THEN FloatScale
            ELSE IF family_support = "medium" THEN FloatScale \div 2
            ELSE 0
        \* floats in thousandths: 0.40, 0.35 and 0.25 are 40, 35 and 25 hundredths
        social_support_index ==
            (support_score * 40 + husband_score * 35 + inlaws_score * 25) \div 100
        low_support_flag ==
            IF family_support = "low" \/ social_support_index < (4 * FloatScale) \div 10
            THEN 1 ELSE 0
        fear_score == IF fear_pregnancy = "yes" THEN FloatScale ELSE 0
        complications_score == IF complications = "yes" THEN FloatScale ELSE 0
        changes_score == IF major_changes = "yes" THEN FloatScale ELSE 0
        pregnancy_stress_score ==
            (fear_score * 3 + complications_score * 3 + changes_score * 4) \div 10
        cumulative_risk_score ==
            (depression_history_flag * 30 * FloatScale
             + abuse_flag * 25 * FloatScale
             + (FloatScale - social_support_index) * 20
             + pregnancy_stress_score * 18
             + history_loss_flag * 15 * FloatScale
             + high_parity_risk * 12 * FloatScale) \div 10
        features ==
            << Entry("Age", PyInt(age)),
               Entry("Number of the latest pregnancy", PyInt(num_pregnancies)),
               Entry("Education Level", PyStr(education)),
               Entry("Husband's education level",
                     DictGet(inputs, "husbands_education", PyStr(education))),
               Entry("Total children", PyStr(total_children)),
               Entry("Family type", PyStr(family_type)),
               Entry("PHQ9 Score", PyInt(phq9_score)),
               Entry("PHQ9 Result", PyStr(phq9_result)),
               Entry("Number of household members", PyInt(household_members)),
               Entry("Disease before pregnancy",
                     PyStr(IF complications = "yes" THEN "chronic disease" ELSE "nan")),
               Entry("Pregnancy length", PyStr(pregnancy_length)),
               Entry("Pregnancy plan", PyStr(get_yes_no(inputs, "pregnancy_plan", "yes"))),
               Entry("Regular checkups", PyStr(get_yes_no(inputs, "regular_checkups", "yes"))),
               Entry("Fear of pregnancy", PyStr(fear_pregnancy)),
               Entry("Diseases during pregnancy",
                     PyStr(IF complications = "yes" THEN "non chronic disease" ELSE "nan")),
               Entry("Feeling about motherhood", PyStr(feeling_motherhood)),
               Entry("Recieved Support", PyStr(family_support)),
               Entry("Need for Support", PyStr(family_support)),
               Entry("Major changes or losses during pregnancy", PyStr(major_changes)),
               Entry("Abuse", PyStr(abuse)),
               Entry("Trust and share feelings", PyStr(trust_share)),
               Entry("Feeling for regular activities", PyStr(emotional_state)),
               Entry("Angry after latest child birth", PyStr(emotional_state)),
               Entry("Relationship with the in-laws", PyStr(relationship_inlaws)),
               Entry("Relationship with husband", PyStr(relationship_husband)),
               Entry("Relationship with the newborn", PyStr(newborn_rel)),
               Entry("Relationship between father and newborn",
                     PyStr(replace_token(replace_token(relationship_husband, "poor", "neutral"),
                                         "friendly", "good"))),
               Entry("Age of immediate older children", PyStr(older_children_age)),
               Entry("Birth compliancy", YesNo(pregnancy_loss = "no")),
               Entry("Breastfeed", PyStr(breastfeed)),
               Entry("Worry about newborn", PyStr(worry_newborn)),
               Entry("Relax/sleep when newborn is tended", good_sleep),
               Entry("Relax/sleep when the newborn is asleep", good_sleep),
               Entry("Depression before pregnancy (PHQ2)",
                     PyStr(IF depression_history = "yes" THEN "positive" ELSE "negative")),
               Entry("Depression during pregnancy (PHQ2)", PyStr(dep_status)),
               Entry("Newborn illness", YesNo(worry_newborn = "yes")),
               Entry("age_squared", PyInt(age * age)),
               Entry("age_parity_interaction", PyInt(age * num_pregnancies)),
               Entry("age_very_young", Flag(age < 21)),
               Entry("age_young", Flag(21 <= age /\ age < 25)),
               Entry("age_optimal", Flag(25 <= age /\ age <= 35)),
               Entry("age_advanced", Flag(age > 35)),
               Entry("phq9_minimal", Flag(phq9_score <= 4)),
               Entry("phq9_mild", Flag(5 <= phq9_score /\ phq9_score <= 9)),
               Entry("phq9_moderate", Flag(10 <= phq9_score /\ phq9_score <= 14)),
               Entry("phq9_severe", Flag(phq9_score >= 15)),
               Entry("high_parity_risk", PyInt(high_parity_risk)),
               Entry("history_loss_flag", PyInt(history_loss_flag)),
               Entry("abuse_flag", PyInt(abuse_flag)),
               Entry("depression_history_flag", PyInt(depression_history_flag)),
               Entry("social_support_index", PyFloat(social_support_index)),
               Entry("low_support_flag", PyInt(low_support_flag)),
               Entry("pregnancy_stress_score", PyFloat(pregnancy_stress_score)),
               Entry("cumulative_risk_score", PyFloat(cumulative_risk_score)) >>
    IN features

\* the household size of the encoded features replaced by its bucket
bucket_household(encoded) ==
    DictSet(encoded, "Number of household members",
            PyInt(household_bucket(
                      DictGet(encoded, "Number of household members", PyInt(3)).n)))

derive_all_features(answers) ==
    LET inputs == RekeyFrom(answers, 1, <<>>)
        age_c == py_int(DictGet(inputs, "age", PyInt(25)))
        preg_c == py_int(DictGet(inputs, "number_of_pregnancies", PyInt(1)))
        phq9_c == compute_phq9_score(inputs)
    IN IF ~age_c.ok \/ ~preg_c.ok \/ ~phq9_c.ok THEN Raised
       ELSE Returned(bucket_household(encode_features(
                         feature_dict(inputs, age_c.n, preg_c.n, phq9_c.n))))

(***************************************************************************)
(* Answer sets of the feature-derivation specification                     *)
(***************************************************************************)
MaxPregnancies == 4

MaxScore == 27

MaxSubAnswer == 3

AgeInts == {18, 20, 21, 24, 25, 28, 35, 36}

AgeValues ==
    {PyInt(a) : a \in AgeInts} \cup {PyFloat(25500), PyStr("30"), PyStr("abc"), PyNone}

\* the age answers, under the key as the questionnaire sends it and under other spellings
AgeKV ==
    {Entry("age", val) : val \in AgeValues}
        \cup {Entry("Age", PyInt(30)), Entry(" AGE ", PyInt(40)), Entry("Age", PyNone)}

PregnancyValues ==
    {PyInt(p) : p \in 0..MaxPregnancies} \cup {PyStr("2"), PyStr("two"), PyNone}

ScoreValues ==
    {PyInt(sc) : sc \in 0..(MaxScore + 1)} \cup {PyStr("12"), PyStr("high"), PyNone}

SubAnswerKeys == {"phq9_q1", "phq9_q2", "phq9_q9"}

SubAnswerValues ==
    {PyInt(a) : a \in 0..MaxSubAnswer}
        \cup {PyStr("Not at all"), PyStr("Several days"), PyStr("More than half the days"),
              PyStr("Nearly every day"), PyStr("2"), PyStr("7"), PyStr("often"), PyNone}

YesNoKeys ==
    {"history_of_pregnancy_loss", "pregnancy_complications", "depression_history",
     "major_changes", "fear_pregnancy", "abuse", "worry_newborn", "trust_share_feelings",
     "breastfeed", "pregnancy_plan", "regular_checkups"}

YesNoValues == {PyStr("yes"), PyStr("no"), PyStr(" Yes "), PyStr("maybe"), PyNone}

\* key -> the answers offered for it, next to null and an unknown token
CategoryOptions ==
       ("relationship_husband" :> {"good", "neutral", "bad", "friendly", "poor"})
    @@ ("relationship_inlaws" :> {"good", "neutral", "bad", "friendly", "poor"})
    @@ ("family_support" :> {"high", "medium", "low"})
    @@ ("feeling_motherhood" :> {"happy", "neutral", "sad"})
    @@ ("family_type" :> {"nuclear", "joint"})
    @@ ("total_children" :> {"one", "two", "more than two"})
    @@ ("pregnancy_length" :> {"10 months", "9 months", "less than 5 months"})
    @@ ("education_level" :> {"primary school", "high school", "college", "University "})
    @@ ("husbands_education" :> {"primary school", "high school", "college", "university"})

CategoryValues(key) ==
    {PyStr(o) : o \in CategoryOptions[key]} \cup {PyStr("unknown"), PyNone}

AnswerKV ==
    AgeKV
        \cup {Entry("number_of_pregnancies", val) : val \in PregnancyValues}
        \cup {Entry("phq9_score", val) : val \in ScoreValues}
        \cup {Entry(key, val) : key \in SubAnswerKeys, val \in SubAnswerValues}
        \cup {Entry(key, val) : key \in YesNoKeys, val \in YesNoValues}
        \cup UNION {{Entry(key, val) : val \in CategoryValues(key)} : key \in DOMAIN CategoryOptions}

\* the answers that are combined two by two: the fields that are converted to
\* numbers, and the categories whose derived fields depend on each other
PairKV ==
    AgeKV
        \cup {Entry("number_of_pregnancies", val) :
                 val \in {PyInt(1), PyInt(MaxPregnancies), PyStr("two"), PyNone}}
        \cup {Entry("phq9_score", val) : val \in {PyInt(4), PyInt(12), PyStr("high"), PyNone}}
        \cup {Entry("phq9_q1", val) :
                 val \in {PyInt(MaxSubAnswer), PyStr("Several days"), PyStr("often"), PyNone}}
        \cup {Entry(key, PyStr("yes")) :
                 key \in {"depression_history", "fear_pregnancy", "major_changes",
                          "pregnancy_complications"}}
        \cup {Entry("family_type", PyStr("joint")), Entry("total_children", PyStr("two")),
              Entry("total_children", PyStr("more than two")),
              Entry("feeling_motherhood", PyStr("happy")),
              Entry("feeling_motherhood", PyStr("sad")),
              Entry("family_support", PyStr("high")), Entry("family_support", PyStr("low")),
              Entry("relationship_husband", PyStr("poor")),
              Entry("relationship_husband", PyStr("neutral")),
              Entry("relationship_inlaws", PyStr("bad")),
              Entry("husbands_education", PyNone)}

\* the sample answers of the module's self-test
sample_inputs ==
    << Entry("age", PyInt(28)),
       Entry("education_level", PyStr("university")),
       Entry("number_of_pregnancies", PyInt(2)),
       Entry("phq9_score", PyInt(12)),
       Entry("depression_history", PyStr("no")),
       Entry("relationship_husband", PyStr("good")),
       Entry("relationship_inlaws", PyStr("neutral")),
       Entry("family_support", PyStr("high")),
       Entry("feeling_motherhood", PyStr("happy")),
       Entry("major_changes", PyStr("no")),
       Entry("fear_pregnancy", PyStr("no")),
       Entry("abuse", PyStr("no")),
       Entry("worry_newborn", PyStr("yes")) >>

\* the answer sets derivation is applied to: the empty one, the sample, every single
\* answer, and the ordered pairs of answers under two different keys of which
\* one at least is in PairKV
AnswerSets ==
    {<<>>, sample_inputs}
        \cup {<<e>> : e \in AnswerKV}
        \cup {p \in (AnswerKV \X PairKV) \cup (PairKV \X AnswerKV) : p[1].k # p[2].k}

(***************************************************************************)
(* Prediction serving (main.py)                                            *)
(***************************************************************************)
\* frontend key -> dataset column, in the order of the table
KEY_MAP ==
    << <<"Age", "Age">>,
       <<"Number_of_the_latest_pregnancy", "Number of the latest pregnancy">>,
       <<"Education_Level", "Education Level">>,
       <<"Husbands_education_level", "Husband's education level">>,
       <<"Total_children", "Total children">>,
       <<"Family_type", "Family type">>,
       <<"Disease_before_pregnancy", "Disease before pregnancy">>,
       <<"Pregnancy_length", "Pregnancy length">>,
       <<"Pregnancy_plan", "Pregnancy plan">>,
       <<"Regular_checkups", "Regular checkups">>,
       <<"Fear_of_pregnancy", "Fear of pregnancy">>,
       <<"Diseases_during_pregnancy", "Diseases during pregnancy">>,
       <<"Feeling_about_motherhood", "Feeling about motherhood">>,
       <<"Recieved_Support", "Recieved Support">>,
       <<"Need_for_Support", "Need for Support">>,
       <<"Major_changes_or_losses", "Major changes or losses during pregnancy">>,
       <<"Abuse", "Abuse">>,
       <<"Trust_and_share_feelings", "Trust and share feelings">>,
       <<"Feeling_for_regular_activities", "Feeling for regular activities">>,
       <<"Angry_after_latest_child_birth", "Angry after latest child birth">>,
       <<"Relationship_with_inlaws", "Relationship with the in-laws">>,
       <<"Relationship_with_husband", "Relationship with husband">>,
       <<"Relationship_with_newborn", "Relationship with the newborn">>,
       <<"Relationship_between_father_and_newborn", "Relationship between father and newborn">>,
       <<"Age_of_immediate_older_children", "Age of immediate older children">>,
       <<"Birth_compliancy", "Birth compliancy">>,
       <<"Breastfeed", "Breastfeed">>,
       <<"Worry_about_newborn", "Worry about newborn">>,
       <<"Relax_sleep_when_tended", "Relax/sleep when newborn is tended">>,
       <<"Relax_sleep_when_asleep", "Relax/sleep when the newborn is asleep">>,
       <<"Depression_before_pregnancy", "Depression before pregnancy (PHQ2)">>,
       <<"Depression_during_pregnancy", "Depression during pregnancy (PHQ2)">>,
       <<"Newborn_illness", "Newborn illness">> >>

EXPECTED_FRONTEND_KEYS == {KEY_MAP[i][1] : i \in 1..Len(KEY_MAP)}

\* _clean_value: null, "", "nan", "none", "null" become None; other strings
\* are stripped; everything else is kept
clean_value(v) ==
    IF IsNone(v) THEN PyNone
    ELSE IF IsStr(v)
         THEN LET s == Strip(v.s)
              IN IF s = "" \/ Lower(s) \in {"nan", "none", "null"}
                 THEN PyNone
                 ELSE PyStr(s)
         ELSE v

\* {k: _clean_value(v) for k, v in incoming.items()}
clean_items(d) == [i \in 1..Len(d) |-> Entry(d[i].k, clean_value(d[i].v))]

\* the items of d whose key is in keys, in order
RECURSIVE FilterKeys(_, _)
FilterKeys(d, keys) ==
    IF d = <<>> THEN <<>>
    ELSE IF Head(d).k \in keys
         THEN <<Head(d)>> \o FilterKeys(Tail(d), keys)
         ELSE FilterKeys(Tail(d), keys)

\* a request body: either {"answers": {...}} or the flat fields
NoAnswers == <<Entry("answers", PyNone)>>

Nested(fields) == [answers |-> fields, extra |-> <<>>]

Flat(fields) == [answers |-> NoAnswers, extra |-> fields]

\* req.answers if it is given, else the dumped model without "answers"
payload(req) == IF req.answers # NoAnswers THEN req.answers ELSE req.extra

\* ---- the classifier ----------------------------------------------------
DEFAULT_CLASSES == <<"high", "low", "medium">>

\* list(getattr(model, "classes_", ["high", "low", "medium"]))
classes_of(m) == IF m.has_classes THEN m.classes_ ELSE DEFAULT_CLASSES

\* str(classes[pred_idx]) if pred_idx < len(classes) else str(pred_idx)
resolve_label(classes, pred_idx) ==
    IF pred_idx < Len(classes) THEN classes[pred_idx + 1] ELSE IntToStr(pred_idx)

NullProbabilities == [null |-> TRUE, keys |-> <<>>]

\* {str(classes[i]): float(probs[i]) for i in range(len(classes))}
ProbabilityDict(classes) == [null |-> FALSE, keys |-> classes]

\* a variant of the probability step that does not compare the lengths
probabilities_of_any_length(m, classes, proba) ==
    IF ~m.has_predict_proba THEN NullProbabilities
    ELSE IF proba.raised THEN NullProbabilities
    ELSE ProbabilityDict(classes)

\* the probability step: None unless the model has predict_proba, the call
\* returns, and the vector is as long as the non-empty class list
probabilities_of(m, classes, proba) ==
    IF ~m.has_predict_proba THEN NullProbabilities
    ELSE IF proba.raised THEN NullProbabilities
    ELSE IF classes # <<>> /\ Len(classes) = proba.len
         THEN ProbabilityDict(classes)
         ELSE NullProbabilities

\* pd.DataFrame([...]): a frame is a sequence of rows, a row a dict from
\* column to cell.  The one-row frame handed to the classifier has the
\* a variant that keeps the derived features the model names, in the order
\* they were derived
model_frame_derived_order(m, features) ==
    IF m.has_feature_names
    THEN << SelectSeq(features,
                      LAMBDA e : \E i \in 1..Len(m.feature_names_in_) :
                                    m.feature_names_in_[i] = e.k) >>
    ELSE <<features>>

\* expected columns when the model names them (a missing one is None), else
\* every derived feature
model_frame(m, features) ==
    IF m.has_feature_names
    THEN << [i \in 1..Len(m.feature_names_in_) |->
               Entry(m.feature_names_in_[i],
                     DictGet(features, m.feature_names_in_[i], PyNone))] >>
    ELSE <<features>>

\* object columns are lower-cased and stripped as strings, and "nan",
\* "none", "" become None (so does None, through "None")
clean_cell(v) ==
    IF IsStr(v) \/ IsNone(v)
    THEN LET s == Strip(Lower(py_str(v)))
         IN IF s \in {"nan", "none", ""} THEN PyNone ELSE PyStr(s)
    ELSE v

clean_frame(df) ==
    [r \in 1..Len(df) |-> [i \in 1..Len(df[r]) |-> Entry(df[r][i].k, clean_cell(df[r][i].v))]]

\* ---- data_collector.log_prediction -------------------------------------
\* the row appended to predictions_log.csv
log_row(input_data, prediction, probabilities, session_id) ==
    [ session_id |-> IF session_id = "" THEN "anonymous" ELSE session_id,
      prediction |-> prediction,
      probabilities |-> probabilities,
      Age |-> DictGet(input_data, "Age", PyStr("")) ]

(***************************************************************************)
(* Attribution (shap_explainer.py)                                         *)
(***************************************************************************)
\* what the explainer library hands back for one instance: it raises, or
\* returns per-class contribution vectors (a list, one vector per class, for
\* a multi-class model) or one vector, with the expected model output
ExplainerRaised == [raised |-> TRUE, format |-> "none", values |-> <<>>, expected |-> <<>>]

ListOutput(vectors, expected) ==
    [raised |-> FALSE, format |-> "list", values |-> vectors, expected |-> expected]

ArrayOutput(vector, expected) ==
    [raised |-> FALSE, format |-> "array", values |-> <<vector>>, expected |-> <<expected>>]

\* contributions in thousandths, for the first columns of the instance
ExplainerOutputs ==
    { ExplainerRaised,
      ListOutput(<< <<120, -300, 0>>, <<-120, 300, 10>>, <<5, 5, -5>> >>, <<400, 350, 250>>),
      ArrayOutput(<<-50, 200, 200>>, 500),
      ListOutput(<<>>, <<>>) }

\* shap_values[0][0] for a list (an empty array for an empty list), the
\* row of the array otherwise
shap_vals_of(out) ==
    IF out.format = "list"
    THEN IF Len(out.values) > 0 THEN out.values[1] ELSE <<>>
    ELSE out.values[1]

\* float(base_value[0]) for a list (0.0 for an empty one), float(base_value) otherwise
base_value_of(out) == IF Len(out.expected) > 0 THEN out.expected[1] ELSE 0

Min(a, b) == IF a < b THEN a ELSE b

\* float(fval) for a number, str(fval) otherwise
feature_value_of(v) ==
    IF v.t = "int" THEN PyFloat(v.n * FloatScale)
    ELSE IF v.t = "float" THEN v
    ELSE PyStr(py_str(v))

\* zip(feature_names, feature_values, shap_vals) over the first row
importance_list(instance_df, shap_vals) ==
    [i \in 1..Min(Len(instance_df[1]), Len(shap_vals)) |->
        [ feature |-> instance_df[1][i].k,
          shap_value |-> shap_vals[i],
          feature_value |-> feature_value_of(instance_df[1][i].v),
          abs_shap_value |-> Abs(shap_vals[i]) ]]

\* list.sort(key=abs_shap_value, reverse=True): descending, equal keys keep
\* their order
RECURSIVE sort_by_abs(_)
sort_by_abs(items) ==
    IF items = <<>> THEN <<>>
    ELSE LET top == CHOOSE i \in 1..Len(items) :
                        /\ \A j \in 1..Len(items) :
                              items[j].abs_shap_value <= items[i].abs_shap_value
                        /\ \A j \in 1..(i - 1) :
                              items[j].abs_shap_value < items[i].abs_shap_value
         IN <<items[top]>>
                \o sort_by_abs(SubSeq(items, 1, top - 1) \o SubSeq(items, top + 1, Len(items)))

impact_of(shap_value) ==
    IF shap_value > 0 THEN "increases_risk"
    ELSE IF shap_value < 0 THEN "decreases_risk"
    ELSE "neutral"

\* importance_list[:top_k] with the impact of each entry
top_features_of(items, top_k) ==
    LET sorted == sort_by_abs(items)
    IN [i \in 1..Min(top_k, Len(sorted)) |->
          [ feature |-> sorted[i].feature,
            shap_value |-> sorted[i].shap_value,
            feature_value |-> sorted[i].feature_value,
            abs_shap_value |-> sorted[i].abs_shap_value,
            impact |-> impact_of(sorted[i].shap_value) ]]

\* the dicts get_shap_values returns; a key the dict does not have is "missing"
ShapError ==
    [ raised |-> FALSE, success |-> "missing", error |-> TRUE,
      shap_values_available |-> "missing", explainer_type |-> "missing",
      base_value |-> 0, top_features |-> <<>>, total_features_analyzed |-> 0 ]

ShapFailure ==
    [ raised |-> FALSE, success |-> "false", error |-> TRUE,
      shap_values_available |-> "false", explainer_type |-> "missing",
      base_value |-> 0, top_features |-> <<>>, total_features_analyzed |-> 0 ]

ShapSuccess(base_value, top_features, total) ==
    [ raised |-> FALSE, success |-> "true", error |-> FALSE,
      shap_values_available |-> "true", explainer_type |-> "missing",
      base_value |-> base_value, top_features |-> top_features,
      total_features_analyzed |-> total ]

\* the call did not return: an exception left get_shap_values
ShapRaised ==
    [ raised |-> TRUE, success |-> "missing", error |-> FALSE,
      shap_values_available |-> "missing", explainer_type |-> "missing",
      base_value |-> 0, top_features |-> <<>>, total_features_analyzed |-> 0 ]

\* how `import shap` ends inside a request: it works, the package is not
\* installed (ImportError, handled), or the import fails otherwise
ImportOutcomes == {"imported", "ImportError", "raised"}

\* get_shap_values(instance_df, top_k) against the module's explainer
get_shap_values(explainer, instance_df, top_k, import_shap, out) ==
    IF import_shap = "raised" THEN ShapRaised
    ELSE IF import_shap = "ImportError" THEN ShapError
    ELSE IF explainer = "None" THEN ShapError
    ELSE IF Len(instance_df) = 0 THEN ShapError
    ELSE IF out.raised THEN ShapFailure
    ELSE ShapSuccess(base_value_of(out),
                     top_features_of(importance_list(instance_df, shap_vals_of(out)), top_k),
                     Len(instance_df[1]))

\* get_risk_factors_summary: the features that raise and that lower the risk
RECURSIVE SelectImpact(_, _)
SelectImpact(features, impact) ==
    IF features = <<>> THEN <<>>
    ELSE IF Head(features).impact = impact
         THEN <<Head(features).feature>> \o SelectImpact(Tail(features), impact)
         ELSE SelectImpact(Tail(features), impact)

get_risk_factors_summary(shap_result) ==
    IF shap_result.success # "true" \/ shap_result.top_features = <<>>
    THEN [increasing_risk |-> <<>>, decreasing_risk |-> <<>>]
    ELSE [ increasing_risk |-> SelectImpact(shap_result.top_features, "increases_risk"),
           decreasing_risk |-> SelectImpact(shap_result.top_features, "decreases_risk") ]

(***************************************************************************)
(* Attribution with fallbacks (the local-history revision                  *)
(* shap_explainer_20251218231438.py of the same module)                    *)
(***************************************************************************)
\* one try of an attribution strategy: while the explainer is built at
\* start-up ("init") or while values are computed for a request ("request")
Attempt(strategy, phase, outcome) ==
    [strategy |-> strategy, phase |-> phase, outcome |-> outcome]

NoFeatureNames == [set |-> FALSE, names |-> <<>>]

\* the module globals before initialize_shap_explainer has run
ModuleLoaded ==
    [ shap_explainer |-> "None", explainer_type |-> "None", shap_model |-> FALSE,
      feature_names |-> NoFeatureNames, attempts |-> <<>> ]

\* the exact tree path applies: a member of the ensemble is tree-based, or
\* the model itself has tree_ or feature_importances_
tree_candidate(m) ==
    IF m.has_estimators THEN m.tree_member
    ELSE m.has_tree \/ m.has_feature_importances

\* initialize_shap_explainer of the revision: the globals it leaves, and the
\* strategies it tried.  g is the globals before the call.
initialize_shap_explainer_hist(g, m, import_shap, tree_build, sampling_build) ==
    IF import_shap = "raised" THEN g
    ELSE IF import_shap = "ImportError" THEN [g EXCEPT !.shap_explainer = "None"]
    ELSE
      LET names == IF m.has_feature_names
                   THEN [set |-> TRUE, names |-> m.feature_names_in_]
                   ELSE NoFeatureNames
          tree_tried == IF tree_candidate(m)
                        THEN <<Attempt("tree", "init", tree_build)>>
                        ELSE <<>>
          sampling_candidate == names.set /\ names.names # <<>>
      IN IF tree_candidate(m) /\ tree_build = "built"
         THEN [ shap_explainer |-> "TreeExplainer", explainer_type |-> "tree",
                shap_model |-> TRUE, feature_names |-> names, attempts |-> tree_tried ]
         ELSE IF sampling_candidate /\ sampling_build = "built"
         THEN [ shap_explainer |-> "Explainer", explainer_type |-> "permutation",
                shap_model |-> TRUE, feature_names |-> names,
                attempts |-> tree_tried \o <<Attempt("sampling", "init", "built")>> ]
         ELSE [ shap_explainer |-> "None", explainer_type |-> "fallback",
                shap_model |-> TRUE, feature_names |-> names,
                attempts |-> tree_tried
                    \o (IF sampling_candidate
                        THEN <<Attempt("sampling", "init", "raised")>>
                        ELSE <<>>) ]

\* what the explainer of the revision hands back: as ExplainerOutputs, and a
\* 3-dimensional array (samples, features, classes), kept as one vector per class
Array3dOutput(vectors, expected) ==
    [raised |-> FALSE, format |-> "array3d", values |-> vectors, expected |-> expected]

ExplainerOutputsHist ==
    ExplainerOutputs
        \cup { Array3dOutput(<< <<120, -300, 0>>, <<-120, 300, 10>>, <<5, 5, -5>> >>,
                             <<400, 350, 250>>) }

\* the slice taken: class 1 when there are several classes, else class 0;
\* [ok, vals], ok = FALSE when indexing raises (an empty list)
shap_vals_hist(out) ==
    IF out.format \in {"list", "array3d"}
    THEN IF Len(out.values) > 1 THEN [ok |-> TRUE, vals |-> out.values[2]]
         ELSE IF Len(out.values) = 1 THEN [ok |-> TRUE, vals |-> out.values[1]]
         ELSE [ok |-> FALSE, vals |-> <<>>]
    ELSE [ok |-> TRUE, vals |-> out.values[1]]

\* float(ev[1]) if len(ev) > 1 else float(ev[0]); [ok, value]
base_value_hist(out) ==
    IF Len(out.expected) > 1 THEN [ok |-> TRUE, value |-> out.expected[2]]
    ELSE IF Len(out.expected) = 1 THEN [ok |-> TRUE, value |-> out.expected[1]]
    ELSE [ok |-> FALSE, value |-> 0]

\* the instance with the model's columns, in the model's order, a missing
\* column filled with 0
align_columns(instance_df, names) ==
    IF names.set /\ names.names # <<>>
    THEN [r \in 1..Len(instance_df) |->
            [i \in 1..Len(names.names) |->
                Entry(names.names[i], DictGet(instance_df[r], names.names[i], PyInt(0)))]]
    ELSE instance_df

ShapEmptyHist ==
    [ raised |-> FALSE, success |-> "false", error |-> TRUE,
      shap_values_available |-> "missing", explainer_type |-> "missing",
      base_value |-> 0, top_features |-> <<>>, total_features_analyzed |-> 0 ]

ShapResultHist(available, etype, base_value, top_features, total) ==
    [ raised |-> FALSE, success |-> "true", error |-> FALSE,
      shap_values_available |-> available, explainer_type |-> etype,
      base_value |-> base_value, top_features |-> top_features,
      total_features_analyzed |-> total ]

\* v > 0 for a cell: [ok, positive], ok = FALSE when the comparison raises
\* (a string or None against a number)
positive(v) ==
    IF IsNumber(v) THEN [ok |-> TRUE, positive |-> v.n > 0]
    ELSE [ok |-> FALSE, positive |-> FALSE]

\* the first k items
Take(items, k) == SubSeq(items, 1, Min(k, Len(items)))

WithImpact(item, impact) ==
    [ feature |-> item.feature, shap_value |-> item.shap_value,
      feature_value |-> item.feature_value, abs_shap_value |-> item.abs_shap_value,
      impact |-> impact ]

\* the static-importance list: one entry per feature that has an importance
static_importance_list(m, names, row) ==
    LET columns == IF names.set /\ names.names # <<>> THEN names.names
                   ELSE [i \in 1..Len(row) |-> row[i].k]
    IN [i \in 1..Min(Len(columns), Len(m.feature_importances_)) |->
          LET fval == DictGet(row, columns[i], PyInt(0))
          IN [ feature |-> columns[i],
               shap_value |-> m.feature_importances_[i],
               feature_value |-> feature_value_of(fval),
               abs_shap_value |-> m.feature_importances_[i],
               impact |-> IF positive(fval).positive THEN "increases_risk"
                          ELSE "decreases_risk",
               comparable |-> positive(fval).ok ]]

\* the non-zero numeric cells, each weighted abs(val) * 0.01 (the weight in
\* units of 0.00001, so that no digit is lost)
RECURSIVE value_proxy_list(_)
value_proxy_list(row) ==
    IF row = <<>> THEN <<>>
    ELSE LET val == Head(row).v
         IN IF IsNumber(val) /\ val.n # 0
            THEN << [ feature |-> Head(row).k,
                      shap_value |-> (IF val.t = "int" THEN Abs(val.n) * FloatScale
                                      ELSE Abs(val.n)),
                      feature_value |-> feature_value_of(val),
                      abs_shap_value |-> (IF val.t = "int" THEN Abs(val.n) * FloatScale
                                          ELSE Abs(val.n)),
                      impact |-> IF val.n > 0 THEN "increases_risk" ELSE "decreases_risk" ] >>
                    \o value_proxy_list(Tail(row))
            ELSE value_proxy_list(Tail(row))

\* _get_fallback_importance: [result, attempts]
get_fallback_importance(g, m, instance_df, top_k) ==
    IF g.shap_model /\ m.has_feature_importances
    THEN LET items == static_importance_list(m, g.feature_names, instance_df[1])
         IN IF \E i \in 1..Len(items) : ~items[i].comparable
            THEN [ result |-> ShapFailure,
                   attempts |-> <<Attempt("static_importance", "request", "raised")>> ]
            ELSE [ result |->
                       ShapResultHist(
                           "false", "feature_importance_fallback", 0,
                           Take(sort_by_abs([i \in 1..Len(items) |->
                                                WithImpact(items[i], items[i].impact)]),
                                top_k),
                           Len(items)),
                   attempts |-> <<Attempt("static_importance", "request", "returned")>> ]
    ELSE [ result |->
               ShapResultHist("false", "value_proxy_fallback", 0,
                              Take(sort_by_abs(value_proxy_list(instance_df[1])), top_k),
                              Len(instance_df[1])),
           attempts |-> <<Attempt("value_proxy", "request", "returned")>> ]

strategy_of(etype) == IF etype = "tree" THEN "tree" ELSE "sampling"

\* get_shap_values of the revision: [result, attempts].  An explainer
\* exists only where shap was imported at start-up, so the import inside
\* the call finds the loaded package.
get_shap_values_hist(g, m, instance_df, top_k, out) ==
    IF Len(instance_df) = 0
    THEN [result |-> ShapEmptyHist, attempts |-> <<>>]
    ELSE IF g.shap_explainer = "None" \/ g.explainer_type = "fallback"
    THEN get_fallback_importance(g, m, instance_df, top_k)
    ELSE
      LET aligned == align_columns(instance_df, g.feature_names)
          strategy == strategy_of(g.explainer_type)
          vals == shap_vals_hist(out)
          base == base_value_hist(out)
          fallback == get_fallback_importance(g, m, aligned, top_k)
      IN IF out.raised \/ ~vals.ok \/ ~base.ok
         THEN [ result |-> fallback.result,
                attempts |-> <<Attempt(strategy, "request", "raised")>> \o fallback.attempts ]
         ELSE [ result |->
                    ShapResultHist(
                        "true", g.explainer_type, base.value,
                        top_features_of(importance_list(aligned, vals.vals), top_k),
                        Len(aligned[1])),
                attempts |-> <<Attempt(strategy, "request", "returned")>> ]

\* initialize_shap_explainer of the current module: the explainer it leaves.
\* A KernelExplainer is built only over non-empty background data.
initialize_shap_explainer(import_shap, background, kernel_build) ==
    IF import_shap # "imported" THEN "None"
    ELSE IF background = "loaded" /\ kernel_build = "built" THEN "KernelExplainer"
    ELSE "None"

(***************************************************************************)
(* The feedback store (database.py, SQLite)                                *)
(***************************************************************************)
\* get_connection opens a plain connection: it never issues
\* PRAGMA foreign_keys = ON, so SQLite does not enforce the FOREIGN KEY
\* clauses of the schema
foreign_keys == FALSE

\* the rows of a table whose session_id is sid
RowsOf(table, sid) == {i \in 1..Len(table) : table[i].session_id = sid}

\* the row save_prediction inserts (of the feature columns, age is kept)
prediction_row(session_id, user_email, input_features, predicted_label) ==
    [ session_id |-> session_id,
      user_email |-> user_email,
      age |-> DictGet(input_features, "Age", PyNone),
      predicted_label |-> predicted_label ]

\* the row save_feedback inserts
feedback_row(session_id, actual_outcome, feedback_notes) ==
    [ session_id |-> session_id,
      actual_outcome |-> actual_outcome,
      feedback_notes |-> feedback_notes,
      clinician_validated |-> 0 ]

\* the same insert into a table declared without UNIQUE(session_id)
insert_row_without_unique(table, row, locked, parent_ok) ==
    IF locked
    THEN [ok |-> FALSE, table |-> table, leaks |-> FALSE]
    ELSE IF foreign_keys /\ ~parent_ok
    THEN [ok |-> FALSE, table |-> table, leaks |-> TRUE]
    ELSE [ok |-> TRUE, table |-> Append(table, row), leaks |-> FALSE]

\* INSERT through a fresh connection.  The statement fails when another
\* connection holds the write lock ("database is locked"), when the
\* session_id is already in the table (UNIQUE), or when foreign keys are
\* enforced and the parent row is missing.  [ok, table, leaks]: leaks says
\* that the statement failed inside its implicit transaction, whose
\* connection the except branch does not close.
insert_row(table, row, locked, parent_ok) ==
    IF locked
    THEN [ok |-> FALSE, table |-> table, leaks |-> FALSE]
    ELSE IF RowsOf(table, row.session_id) # {} \/ (foreign_keys /\ ~parent_ok)
    THEN [ok |-> FALSE, table |-> table, leaks |-> TRUE]
    ELSE [ok |-> TRUE, table |-> Append(table, row), leaks |-> FALSE]


\* the SQL NULL of a column of type TEXT
SqlNull == "NULL"

\* one row of the join: p.*, f.actual_outcome, f.feedback_notes,
\* f.clinician_validated
joined_row(p, f) ==
    [session_id |-> p.session_id, user_email |-> p.user_email, age |-> p.age,
     predicted_label |-> p.predicted_label,
     actual_outcome |-> f.actual_outcome, feedback_notes |-> f.feedback_notes,
     clinician_validated |-> f.clinician_validated]

RECURSIVE rows_of_join(_, _, _)
rows_of_join(p, fb, i) ==
    IF i > Len(fb) THEN <<>>
    ELSE <<joined_row(p, fb[i])>> \o rows_of_join(p, fb, i + 1)

\* the join condition without the WHERE clause on the outcome
matches_any_outcome(p, f) == p.session_id = f.session_id

\* ON p.session_id = f.session_id WHERE f.actual_outcome IS NOT NULL
matches(p, f) == p.session_id = f.session_id /\ f.actual_outcome # SqlNull

\* SELECT ... FROM predictions p INNER JOIN feedback f ...
RECURSIVE inner_join(_, _, _)
inner_join(preds, fb, i) ==
    IF i > Len(preds) THEN <<>>
    ELSE rows_of_join(preds[i], SelectSeq(fb, LAMBDA f : matches(preds[i], f)), 1)
           \o inner_join(preds, fb, i + 1)

\* the values sqlite3 binds to a statement parameter
bindable(v) == v.t \in {"none", "int", "float", "str"}

\* a JSON array given as an answer
PyList == [t |-> "list", n |-> 0, s |-> ""]

\* INSERT INTO predictions with the parameters taken from input_features: a
\* parameter of an unsupported type raises before the statement runs
insert_prediction(table, session_id, user_email, input_features, predicted_label, locked) ==
    IF ~bindable(DictGet(input_features, "Age", PyNone))
    THEN [ok |-> FALSE, table |-> table, leaks |-> FALSE]
    ELSE insert_row(table,
                    prediction_row(session_id, user_email, input_features, predicted_label),
                    locked, TRUE)

\* the row schedule_follow_up inserts on the day now: scheduled_date is
\* datetime.now() + timedelta(days=days_from_now)
follow_up_row(session_id, now, days_from_now, method) ==
    [session_id |-> session_id, days_from_now |-> days_from_now,
     scheduled_date |-> now + days_from_now,
     follow_up_method |-> method, reminder_sent |-> 0, follow_up_completed |-> 0]

\* INSERT INTO follow_up_schedules: the table has no UNIQUE column
insert_follow_up(table, row, locked, parent_ok) ==
    IF locked
    THEN [ok |-> FALSE, table |-> table, leaks |-> FALSE]
    ELSE IF foreign_keys /\ ~parent_ok
    THEN [ok |-> FALSE, table |-> table, leaks |-> TRUE]
    ELSE [ok |-> TRUE, table |-> Append(table, row), leaks |-> FALSE]
(***************************************************************************)
(* The prediction endpoints as actions.  A request is served in one step:  *)
(* the classifier, the probability step, the log and the explainer are     *)
(* outside the program, and each of their calls ends in one of the ways    *)
(* enumerated here.                                                        *)
(***************************************************************************)
MaxPredIdx == 3

\* a classifier artifact, by the attributes the service looks at
Classifier(classes, proba, names, ensemble, tree_member, tree, importances) ==
    [ has_classes |-> classes.set, classes_ |-> classes.names,
      has_predict_proba |-> proba,
      has_feature_names |-> names.set, feature_names_in_ |-> names.names,
      has_estimators |-> ensemble, tree_member |-> tree_member, has_tree |-> tree,
      has_feature_importances |-> importances.set,
      feature_importances_ |-> importances.names ]

Attr(value) == [set |-> TRUE, names |-> value]

NoAttr == [set |-> FALSE, names |-> <<>>]

\* the shipped soft-voting ensemble: string classes_, predict_proba, named
\* training columns, tree-based members, no feature_importances_
ShippedEnsemble ==
    Classifier(Attr(<<"high", "low", "medium">>), TRUE,
               Attr(<<"Age", "PHQ9 Score", "Newborn illness", "Sleep quality">>),
               TRUE, TRUE, FALSE, NoAttr)

\* an estimator exposing none of the optional attributes
BareEstimator == Classifier(NoAttr, FALSE, NoAttr, FALSE, FALSE, FALSE, NoAttr)

\* a two-class random forest trained on an array
TwoClassForest ==
    Classifier(Attr(<<"high", "low">>), TRUE, NoAttr, TRUE, TRUE, FALSE,
               Attr(<<500, 300, 200>>))

\* the ensemble create_ensemble_model.py fits on the local dataset: its columns
\* are those of pd.get_dummies, in the dataset's order
LocalDatasetEnsemble ==
    Classifier(Attr(<<"high", "low", "medium">>), TRUE,
               Attr(<<"Sleep quality", "Age", "Education Level_High School">>),
               TRUE, TRUE, FALSE, NoAttr)

\* the classifiers a deployment may load from MODEL_PATH
Models == {ShippedEnsemble, BareEstimator, TwoClassForest, LocalDatasetEnsemble}

\* model.predict(df)[0]: the call raises, or returns a class index.  A
\* classifier that reports classes_ was fitted on the encoded labels and
\* returns an index into them; nothing bounds the value of one that reports
\* no classes_
PredictOutcomes(m) ==
    {[raised |-> TRUE, idx |-> 0]}
    \cup {[raised |-> FALSE, idx |-> i]
            : i \in 0..(IF m.has_classes THEN Len(m.classes_) - 1 ELSE MaxPredIdx)}

\* model.predict_proba(df)[0]: the call raises, or returns a vector that is
\* as long as the class list or longer by one; one outcome when the model
\* has no predict_proba
ProbaOutcomes(m, classes) ==
    IF m.has_predict_proba
    THEN {[raised |-> TRUE, len |-> 0]}
            \cup {[raised |-> FALSE, len |-> l] : l \in {Len(classes), Len(classes) + 1}}
    ELSE {[raised |-> FALSE, len |-> 0]}

\* log_prediction writes the row or raises (the file cannot be written)
LogOutcomes == {"written", "raised"}

\* the explainer is consulted only when shap imports and an explainer exists
ExplainerCalls(explainer, import_shap) ==
    IF import_shap = "imported" /\ explainer # "None"
    THEN ExplainerOutputs
    ELSE {ExplainerRaised}

Missing == [t |-> "missing", n |-> 0, s |-> ""]

NullExplanation ==
    [ null |-> TRUE, top_features |-> <<>>,
      risk_factors |-> [increasing_risk |-> <<>>, decreasing_risk |-> <<>>],
      base_value |-> 0, total_features_analyzed |-> 0 ]

Step(call, outcome, value) == [call |-> call, outcome |-> outcome, value |-> value]

NoResponse ==
    [ endpoint |-> "none", status |-> 0, detail |-> "", risk_level |-> Missing,
      probabilities |-> NullProbabilities, shap_explanation |-> NullExplanation,
      features_computed |-> 0, results |-> <<>>, risk_distribution |-> <<>> ]

\* raise HTTPException(status_code, detail)
HTTPException(endpoint, status_code, detail) ==
    [NoResponse EXCEPT !.endpoint = endpoint, !.status = status_code, !.detail = detail]

\* a variant that builds the explanation from any dict get_shap_values
\* returns, without looking at "success"
explanation_of_any_result(shap_result) ==
    IF ~shap_result.raised
    THEN [ null |-> FALSE,
           top_features |-> shap_result.top_features,
           risk_factors |-> get_risk_factors_summary(shap_result),
           base_value |-> shap_result.base_value,
           total_features_analyzed |-> shap_result.total_features_analyzed ]
    ELSE NullExplanation

\* the shap_explanation predict_minimal and batch_assess build: None unless
\* get_shap_values returns a dict whose "success" is true
explanation_of(shap_result) ==
    IF ~shap_result.raised /\ shap_result.success = "true"
    THEN [ null |-> FALSE,
           top_features |-> shap_result.top_features,
           risk_factors |-> get_risk_factors_summary(shap_result),
           base_value |-> shap_result.base_value,
           total_features_analyzed |-> shap_result.total_features_analyzed ]
    ELSE NullExplanation

\* the log after the data-collection step
log_after(log, collecting, outcome, row) ==
    IF collecting /\ outcome = "written" THEN Append(log, row) ELSE log

log_steps(collecting, outcome) ==
    IF collecting THEN <<Step("log_prediction", outcome, 0)>> ELSE <<>>

proba_steps(m, proba) ==
    IF m.has_predict_proba
    THEN <<Step("predict_proba", IF proba.raised THEN "raised" ELSE "returned", proba.len)>>
    ELSE <<>>

\* how a get_shap_values call ended: it raised, or returned a dict with
\* success true ("success"), success false ("failure") or no success key ("error")
shap_outcome(shap_result) ==
    IF shap_result.raised THEN "raised"
    ELSE IF shap_result.success = "true" THEN "success"
    ELSE IF shap_result.success = "false" THEN "failure"
    ELSE "error"

shap_steps(shap_result) ==
    <<Step("get_shap_values", shap_outcome(shap_result), 0)>>
        \o (IF ~shap_result.raised /\ shap_result.success = "true"
            THEN <<Step("get_risk_factors_summary", "returned", 0)>>
            ELSE <<>>)

\* the oldest request in flight has been answered with r after the calls s,
\* the log now log
ReplyAfter(df, r, s, log) ==
    /\ inbox' = Tail(inbox)
    /\ resp' = r
    /\ steps' = s
    /\ predictions_log' = log
    /\ handed_frame' = df
    /\ UNCHANGED <<model, collect_data, derivationVars, explainerVars, attributionVars, storeVars,
                   workerVars, trackingVars, encodingVars, feedbackLogVars, serviceVars>>

\* no frame was handed to the classifier through predict_minimal
NotHanded == <<>>

Reply(r, s, log) == ReplyAfter(NotHanded, r, s, log)

\* the bodies sent to /predict-minimal
MinimalFields ==
    { <<>>,
      <<Entry("education_level", PyStr("college"))>>,
      <<Entry("age", PyInt(25))>>,
      <<Entry("Age", PyInt(30))>>,
      <<Entry("AGE", PyInt(22))>>,
      <<Entry("age", PyNone)>>,
      <<Entry("age", PyStr(" NaN "))>>,
      <<Entry("age", PyStr("abc"))>>,
      <<Entry("age", PyStr(" 31 ")), Entry("phq9_score", PyInt(12))>>,
      <<Entry("Age", PyInt(30)), Entry("age", PyStr(""))>> }

Request(endpoint, body) == [endpoint |-> endpoint, body |-> body]

MinimalRequests ==
    {Request("predict_minimal", Nested(f)) : f \in MinimalFields}
        \cup { Request("predict_minimal", Flat(<<Entry("age", PyInt(25))>>)),
               Request("predict_minimal", Flat(<<>>)) }

\* POST /predict-minimal
predict_minimal ==
    /\ inbox # <<>>
    /\ Head(inbox).endpoint = "predict_minimal"
    /\ \E cleaned \in {clean_items(payload(Head(inbox).body))} :
       \E incoming \in
            { IF DictHas(cleaned, "Age") /\ ~DictHas(cleaned, "age")
              THEN DictSet(cleaned, "age", DictGet(cleaned, "Age", PyNone))
              ELSE cleaned } :
           IF ~DictHas(cleaned, "age") /\ ~DictHas(cleaned, "Age")
           THEN Reply(HTTPException("predict_minimal", 422, "Missing required field: age"),
                      <<>>, predictions_log)
           ELSE
             \E d \in {derive_all_features(incoming)} :
                IF d.outcome = "raised"
                THEN Reply(HTTPException("predict_minimal", 400, "Feature derivation failed"),
                           <<Step("derive_all_features", "raised", 0)>>, predictions_log)
                ELSE
                  \E derived_features \in {d.features} :
                  \E df \in {clean_frame(model_frame(model, derived_features))} :
                  \E classes \in {classes_of(model)} :
                     \E pred \in PredictOutcomes(model) :
                       IF pred.raised
                       THEN ReplyAfter(df,
                                  HTTPException("predict_minimal", 500, "Prediction failed"),
                                  << Step("derive_all_features", "returned", 0),
                                     Step("predict", "raised", 0) >>,
                                  predictions_log)
                       ELSE
                         \E proba \in ProbaOutcomes(model, classes) :
                         \E logged \in LogOutcomes :
                         \E out \in ExplainerCalls(shap_explainer, shap_import) :
                         \E risk_label \in {resolve_label(classes, pred.idx)} :
                         \E probabilities \in {probabilities_of(model, classes, proba)} :
                         \E shap_result \in
                               {get_shap_values(shap_explainer, df, 10, shap_import, out)} :
                              ReplyAfter(df,
                                    [ endpoint |-> "predict_minimal",
                                      status |-> 200,
                                      detail |-> "",
                                      risk_level |-> PyStr(risk_label),
                                      probabilities |-> probabilities,
                                      shap_explanation |-> explanation_of(shap_result),
                                      features_computed |-> Len(derived_features),
                                      results |-> <<>>,
                                      risk_distribution |-> <<>> ],
                                    << Step("derive_all_features", "returned", 0),
                                       Step("predict", "returned", pred.idx) >>
                                        \o proba_steps(model, proba)
                                        \o log_steps(collect_data, logged)
                                        \o shap_steps(shap_result),
                                    log_after(predictions_log, collect_data, logged,
                                              log_row(derived_features, risk_label,
                                                      probabilities, "")))

\* the bodies sent to /predict
FullFields ==
    { <<>>,
      <<Entry("Age", PyInt(23))>>,
      <<Entry("age", PyInt(23)), Entry("Number_of_the_latest_pregnancy", PyInt(1))>>,
      <<Entry("Age", PyInt(23)), Entry("Number_of_the_latest_pregnancy", PyInt(1))>>,
      <<Entry("Age", PyNone), Entry("Number_of_the_latest_pregnancy", PyStr("nan"))>>,
      << Entry("Age", PyInt(23)), Entry("Number_of_the_latest_pregnancy", PyInt(2)),
         Entry("Newborn_illness", PyStr(" Yes ")), Entry("favourite_colour", PyStr("blue")) >> }

FullRequests ==
    {Request("predict", Nested(f)) : f \in FullFields}
        \cup { Request("predict",
                       Flat(<< Entry("Age", PyInt(23)),
                               Entry("Number_of_the_latest_pregnancy", PyInt(1)) >>)) }

\* {KEY_MAP[k]: incoming.get(k) for k in EXPECTED_FRONTEND_KEYS}
mapped_of(incoming) ==
    [i \in 1..Len(KEY_MAP) |-> Entry(KEY_MAP[i][2], DictGet(incoming, KEY_MAP[i][1], PyNone))]

\* POST /predict
predict ==
    /\ inbox # <<>>
    /\ Head(inbox).endpoint = "predict"
    /\ LET req == Head(inbox).body
           incoming == clean_items(FilterKeys(payload(req), EXPECTED_FRONTEND_KEYS))
       IN IF ~DictHas(incoming, "Age") \/ ~DictHas(incoming, "Number_of_the_latest_pregnancy")
          THEN Reply(HTTPException("predict", 422,
                                   "Missing required fields: Age and Number_of_the_latest_pregnancy"),
                     <<>>, predictions_log)
          ELSE
            LET mapped == mapped_of(incoming)
                df == clean_frame(model_frame(model, mapped))
                classes == classes_of(model)
            IN \E pred \in PredictOutcomes(model) :
                 IF pred.raised
                 THEN Reply(HTTPException("predict", 500, "Prediction failed"),
                            <<Step("predict", "raised", 0)>>, predictions_log)
                 ELSE
                   \E proba \in ProbaOutcomes(model, classes) :
                   \E logged \in LogOutcomes :
                     LET risk_label == resolve_label(classes, pred.idx)
                         probabilities == probabilities_of(model, classes, proba)
                     IN Reply([ endpoint |-> "predict",
                                status |-> 200,
                                detail |-> "",
                                risk_level |-> PyStr(risk_label),
                                probabilities |-> probabilities,
                                shap_explanation |-> NullExplanation,
                                features_computed |-> 0,
                                results |-> <<>>,
                                risk_distribution |-> <<>> ],
                              <<Step("predict", "returned", pred.idx)>>
                                  \o proba_steps(model, proba)
                                  \o log_steps(collect_data, logged),
                              log_after(predictions_log, collect_data, logged,
                                        log_row(mapped, risk_label, probabilities, "")))

\* ---- POST /batch-assess ------------------------------------------------
\* an uploaded file: it cannot be read as CSV, or it parses to rows (a
\* missing cell is None) over the same columns
Unreadable == [readable |-> FALSE, rows |-> <<>>]

Csv(rows) == [readable |-> TRUE, rows |-> rows]

CsvFiles ==
    { Unreadable,
      Csv(<<>>),
      Csv(<< <<Entry("age", PyInt(25))>> >>),
      Csv(<< <<Entry("Age", PyInt(30)), Entry("phq9_score", PyInt(16))>> >>),
      Csv(<< <<Entry("education_level", PyStr("college"))>> >>),
      Csv(<< <<Entry("age", PyNone)>>, <<Entry("age", PyInt(22))>> >>) }

BatchRequests ==
    {Request("batch_assess", [file |-> f, save_to_log |-> s]) : f \in CsvFiles, s \in BOOLEAN}

RowError(idx, error) ==
    [ row |-> idx, status |-> "error", error |-> error, risk_level |-> Missing,
      probabilities |-> NullProbabilities, shap_explanation |-> NullExplanation ]

RowSuccess(idx, risk_label, probabilities, shap_explanation) ==
    [ row |-> idx, status |-> "success", error |-> "", risk_level |-> PyStr(risk_label),
      probabilities |-> probabilities, shap_explanation |-> shap_explanation ]

RowRun(result, calls, logged) == [result |-> result, calls |-> calls, logged |-> logged]

\* the ways the loop body of batch_assess can end for the row idx
RowRuns(m, explainer, import_shap, save_to_log, idx, row) ==
    UNION { UNION { UNION {
      IF ~DictHas(incoming, "age") /\ ~DictHas(incoming, "Age")
      THEN {RowRun(RowError(idx, "Missing required field: age"), <<>>, <<>>)}
      ELSE IF d.outcome = "raised"
      THEN {RowRun(RowError(idx, "Feature derivation failed"),
                   <<Step("derive_all_features", "raised", idx)>>, <<>>)}
      ELSE
        { RowRun(RowError(idx, "predict raised"),
                 << Step("derive_all_features", "returned", idx),
                    Step("predict", "raised", idx) >>, <<>>) }
        \cup
        UNION { UNION { UNION { UNION {
          { RowRun(RowSuccess(idx, resolve_label(classes_of(m), pred.idx), probabilities,
                              explanation_of(shap_result)),
                   << Step("derive_all_features", "returned", idx),
                      Step("predict", "returned", pred.idx) >>
                       \o proba_steps(m, proba)
                       \o shap_steps(shap_result)
                       \o log_steps(save_to_log, logged),
                   log_after(<<>>, save_to_log, logged,
                             log_row(d.features, resolve_label(classes_of(m), pred.idx),
                                     probabilities, "")))
            : logged \in (IF save_to_log THEN LogOutcomes ELSE {"written"}) }
            : shap_result \in {get_shap_values(explainer, df, 5, import_shap, out)},
              probabilities \in {probabilities_of(m, classes_of(m), proba)} }
            : out \in ExplainerCalls(explainer, import_shap) }
            : proba \in ProbaOutcomes(m, classes_of(m)) }
            : pred \in {p \in PredictOutcomes(m) : ~p.raised} }
      : df \in {IF d.outcome = "raised" THEN <<>>
                ELSE clean_frame(model_frame(m, d.features))} }
      : d \in {derive_all_features(incoming)} }
      : incoming \in { IF DictHas(row, "Age") /\ ~DictHas(row, "age")
                       THEN DictSet(row, "age", DictGet(row, "Age", PyNone))
                       ELSE row } }

\* the ways the loop over the rows from idx on can go
RECURSIVE BatchRuns(_, _, _, _, _, _)
BatchRuns(m, explainer, import_shap, save_to_log, rows, idx) ==
    IF idx > Len(rows)
    THEN {[results |-> <<>>, calls |-> <<>>, logged |-> <<>>]}
    ELSE { [ results |-> <<r.result>> \o rest.results,
             calls |-> r.calls \o rest.calls,
             logged |-> r.logged \o rest.logged ]
           : r \in RowRuns(m, explainer, import_shap, save_to_log, idx - 1, rows[idx]),
             rest \in BatchRuns(m, explainer, import_shap, save_to_log, rows, idx + 1) }

\* aggregate_risk after the rows: a counter per lower-cased label
RECURSIVE risk_distribution_of(_, _)
risk_distribution_of(results, counts) ==
    IF results = <<>> THEN counts
    ELSE IF Head(results).status = "success"
         THEN LET key == Lower(Head(results).risk_level.s)
              IN risk_distribution_of(
                     Tail(results),
                     DictSet(counts, key, PyInt(DictGet(counts, key, PyInt(0)).n + 1)))
         ELSE risk_distribution_of(Tail(results), counts)

batch_assess ==
    /\ inbox # <<>>
    /\ Head(inbox).endpoint = "batch_assess"
    /\ LET req == Head(inbox).body
       IN IF ~req.file.readable
          THEN Reply(HTTPException("batch_assess", 400, "Failed to read CSV file"),
                     <<>>, predictions_log)
          ELSE IF Len(req.file.rows) = 0
          THEN Reply(HTTPException("batch_assess", 400, "CSV file is empty"),
                     <<>>, predictions_log)
          ELSE \E run \in BatchRuns(model, shap_explainer, shap_import, req.save_to_log,
                                     req.file.rows, 1) :
                 Reply([ endpoint |-> "batch_assess",
                         status |-> 200,
                         detail |-> "",
                         risk_level |-> Missing,
                         probabilities |-> NullProbabilities,
                         shap_explanation |-> NullExplanation,
                         features_computed |-> 0,
                         results |-> run.results,
                         risk_distribution |->
                             risk_distribution_of(
                                 run.results,
                                 << Entry("high", PyInt(0)), Entry("medium", PyInt(0)),
                                    Entry("low", PyInt(0)) >>) ],
                       run.calls,
                       predictions_log \o run.logged)

(***************************************************************************)
(* The attribution engine as actions                                       *)
(***************************************************************************)
\* the classifiers the explainer is built for
ShapModels ==
    { ShippedEnsemble,
      BareEstimator,
      TwoClassForest,
      \* a voting ensemble of linear members, trained on a named frame
      Classifier(Attr(<<"high", "low", "medium">>), TRUE,
                 Attr(<<"PHQ9 Score", "Age", "Sleep quality">>),
                 TRUE, FALSE, FALSE, NoAttr),
      \* a decision tree trained on a named frame
      Classifier(Attr(<<"high", "low", "medium">>), TRUE,
                 Attr(<<"Age", "PHQ9 Score", "Newborn illness">>),
                 FALSE, FALSE, TRUE, Attr(<<700, 300>>)),
      \* a gradient-boosting model trained on a named frame of numbers
      Classifier(Attr(<<"high", "low", "medium">>), TRUE,
                 Attr(<<"Age", "PHQ9 Score">>),
                 FALSE, FALSE, FALSE, Attr(<<250, 750>>)) }

\* the frames explained: no row, or one row of derived features
Frames ==
    { <<>>,
      << << Entry("Age", PyInt(25)), Entry("PHQ9 Score", PyInt(0)),
            Entry("Newborn illness", PyStr("no")) >> >>,
      << << Entry("PHQ9 Score", PyInt(12)), Entry("Age", PyInt(30)),
            Entry("social_support_index", PyFloat(675)) >> >>,
      << <<Entry("Age", PyInt(-3)), Entry("PHQ9 Score", PyInt(0))>> >> }

TopKs == {0, 2, 10}

Instances == {[df |-> f, top_k |-> k] : f \in Frames, k \in TopKs}

BuildOutcomes == {"built", "raised"}

\* the background data set: read, absent, unreadable, or without a usable row
BackgroundOutcomes == {"loaded", "missing", "failed", "empty"}

NotExplained == [called |-> FALSE, result |-> ShapRaised]

Explained(result) == [called |-> TRUE, result |-> result]

\* initialize_shap_explainer(model), as the startup event calls it
initialize_explainer ==
    /\ ~started
    /\ started' = TRUE
    /\ IF shap_version = "current"
       THEN /\ \E background \in BackgroundOutcomes, kernel_build \in BuildOutcomes :
                 shap_explainer'
                     = initialize_shap_explainer(shap_import, background, kernel_build)
            /\ shap_model' = (shap_import = "imported")
            /\ UNCHANGED <<explainer_type, feature_names, init_attempts>>
       ELSE \E tree_build \in BuildOutcomes, sampling_build \in BuildOutcomes :
              LET g == initialize_shap_explainer_hist(ModuleLoaded, model, shap_import,
                                                      tree_build, sampling_build)
              IN /\ shap_explainer' = g.shap_explainer
                 /\ explainer_type' = g.explainer_type
                 /\ shap_model' = g.shap_model
                 /\ feature_names' = g.feature_names
                 /\ init_attempts' = g.attempts
    /\ UNCHANGED <<shap_import, shap_version, derivationVars, servingVars, attributionVars,
                   storeVars,
                   workerVars, trackingVars, encodingVars, feedbackLogVars, serviceVars>>

\* the globals of the revision, as initialize_shap_explainer_hist returns them
Globals ==
    [ shap_explainer |-> shap_explainer, explainer_type |-> explainer_type,
      shap_model |-> shap_model, feature_names |-> feature_names,
      attempts |-> init_attempts ]

\* one call of get_shap_values(instance_df, top_k) after start-up
explain ==
    /\ started
    /\ ~explained.called
    /\ IF shap_version = "current"
       THEN /\ \E out \in ExplainerCalls(shap_explainer, shap_import) :
                 explained' = Explained(get_shap_values(shap_explainer, instance.df,
                                                          instance.top_k, shap_import, out))
            /\ request_attempts' = <<>>
       ELSE \E out \in (IF shap_explainer = "None" THEN {ExplainerRaised}
                         ELSE ExplainerOutputsHist) :
              LET r == get_shap_values_hist(Globals, model, instance.df, instance.top_k, out)
              IN /\ explained' = Explained(r.result)
                 /\ request_attempts' = r.attempts
    /\ UNCHANGED <<instance, derivationVars, servingVars, explainerVars, storeVars,
                   workerVars, trackingVars, encodingVars, feedbackLogVars, serviceVars>>

(***************************************************************************)
(* The feedback store as actions                                           *)
(***************************************************************************)
SessionIds == {"s1", "s2"}

Labels == {"high", "low"}

\* an outcome given to save_feedback: a label, or None (the column is nullable)
Outcomes == Labels \cup {SqlNull}

Notes == {PyNone, PyStr("visit")}

PredictionInputs == {<<Entry("Age", PyInt(25))>>}

Call(op, session_id, ok) == [op |-> op, session_id |-> session_id, ok |-> ok]

NoCall == Call("none", "", FALSE)

\* save_prediction(session_id, user_email, user_phone, input_features,
\*                 predicted_label, probabilities, confidence)
save_prediction ==
    \E session_id \in SessionIds, input_features \in PredictionInputs, label \in Labels :
      LET r == insert_row(predictions,
                          prediction_row(session_id, PyNone, input_features, label),
                          write_locked, TRUE)
      IN /\ predictions' = r.table
         /\ write_locked' = (write_locked \/ r.leaks)
         /\ last_call' = Call("save_prediction", session_id, r.ok)
         /\ UNCHANGED <<feedback, feedback_calls>>
         /\ UNCHANGED <<derivationVars, explainerVars, servingVars, attributionVars>>
         /\ UNCHANGED <<workerVars, trackingVars, encodingVars, feedbackLogVars, serviceVars>>

\* save_feedback(session_id, actual_outcome, feedback_notes)
save_feedback ==
    \E session_id \in SessionIds, actual_outcome \in Outcomes, feedback_notes \in Notes :
      LET r == insert_row(feedback,
                          feedback_row(session_id, actual_outcome, feedback_notes),
                          write_locked,
                          RowsOf(predictions, session_id) # {})
      IN /\ feedback' = r.table
         /\ write_locked' = (write_locked \/ r.leaks)
         /\ last_call' = Call("save_feedback", session_id, r.ok)
         /\ feedback_calls' = feedback_calls \cup {session_id}
         /\ UNCHANGED predictions
         /\ UNCHANGED <<derivationVars, explainerVars, servingVars, attributionVars>>
         /\ UNCHANGED <<workerVars, trackingVars, encodingVars, feedbackLogVars, serviceVars>>

\* the garbage collector frees a connection that a failed insert left open:
\* its transaction is rolled back and the write lock released
release_leaked_connection ==
    /\ write_locked
    /\ write_locked' = FALSE
    /\ UNCHANGED <<predictions, feedback, last_call, feedback_calls>>
    /\ UNCHANGED <<derivationVars, explainerVars, servingVars, attributionVars>>
    /\ UNCHANGED <<workerVars, trackingVars, encodingVars, feedbackLogVars, serviceVars>>

\* get_predictions_with_feedback(): a read, which a write lock held by another
\* connection does not block
get_predictions_with_feedback ==
    /\ labeled' = [queried |-> TRUE, rows |-> inner_join(predictions, feedback, 1)]
    /\ UNCHANGED <<follow_up_schedules, tracked>>
    /\ UNCHANGED storeVars
    /\ UNCHANGED <<derivationVars, explainerVars, servingVars, attributionVars>>
    /\ UNCHANGED <<workerVars, encodingVars, feedbackLogVars, serviceVars>>

(***************************************************************************)
(* Concurrent save_prediction calls.  The endpoints are synchronous        *)
(* handlers, which the server runs in a thread pool: two calls interleave  *)
(* at the statements that touch the database file.  Each call uses its own *)
(* connection.  cursor.execute opens an implicit transaction and needs the *)
(* write lock: while the transaction of another call holds it, SQLite's    *)
(* busy handler waits (the holder goes from execute to commit without      *)
(* blocking, well within the 5 s timeout of sqlite3.connect); the lock of  *)
(* a connection that was left open is not released in time and the         *)
(* statement fails.                                                        *)
(***************************************************************************)
Workers == {1, 2}

Worker(pc, session_id, label, ok) ==
    [pc |-> pc, session_id |-> session_id, label |-> label, ok |-> ok]

IdleWorker == Worker("idle", "", "", FALSE)

\* the arguments of worker w's call: the age tells the calls apart
worker_row(w) ==
    prediction_row(workers[w].session_id, PyNone,
                   <<Entry("Age", PyInt(20 + w))>>, workers[w].label)

At(w, pc) == [workers EXCEPT ![w].pc = pc]

\* a write statement that proceeds although another transaction is open
may_execute_unserialized(holder, w) == holder \in {0} \cup Workers

\* a write statement proceeds when no other open transaction holds the lock
may_execute(holder, w) == holder \in {0, w}

\* conn = get_connection(); cursor = conn.cursor()
worker_connect(w) ==
    /\ workers[w].pc = "called"
    /\ workers' = At(w, "execute")
    /\ UNCHANGED <<lock_holder, storeVars>>
    /\ UNCHANGED <<derivationVars, explainerVars, servingVars, attributionVars>>
    /\ UNCHANGED <<trackingVars, encodingVars, feedbackLogVars, serviceVars>>

\* cursor.execute("INSERT INTO predictions ..."): the row is pending in the
\* transaction, or the statement raises and the call returns False through
\* the except branch
worker_execute(w) ==
    /\ workers[w].pc = "execute"
    /\ may_execute(lock_holder, w)
    /\ \E r \in {insert_row(predictions, worker_row(w), write_locked, TRUE)} :
         IF r.ok
         THEN /\ lock_holder' = w
              /\ workers' = At(w, "commit")
              /\ UNCHANGED write_locked
         ELSE /\ workers' = [workers EXCEPT ![w].pc = "done", ![w].ok = FALSE]
              /\ write_locked' = (write_locked \/ r.leaks)
              /\ UNCHANGED lock_holder
    /\ UNCHANGED <<predictions, feedback, last_call, feedback_calls>>
    /\ UNCHANGED <<derivationVars, explainerVars, servingVars, attributionVars>>
    /\ UNCHANGED <<trackingVars, encodingVars, feedbackLogVars, serviceVars>>

\* conn.commit(): the pending row is written and the lock released
worker_commit(w) ==
    /\ workers[w].pc = "commit"
    /\ predictions' = Append(predictions, worker_row(w))
    /\ lock_holder' = (IF lock_holder = w THEN 0 ELSE lock_holder)
    /\ workers' = At(w, "close")
    /\ UNCHANGED <<feedback, write_locked, last_call, feedback_calls>>
    /\ UNCHANGED <<derivationVars, explainerVars, servingVars, attributionVars>>
    /\ UNCHANGED <<trackingVars, encodingVars, feedbackLogVars, serviceVars>>

\* conn.close(); return True
worker_close(w) ==
    /\ workers[w].pc = "close"
    /\ workers' = [workers EXCEPT ![w].pc = "done", ![w].ok = TRUE]
    /\ UNCHANGED <<lock_holder, storeVars>>
    /\ UNCHANGED <<derivationVars, explainerVars, servingVars, attributionVars>>
    /\ UNCHANGED <<trackingVars, encodingVars, feedbackLogVars, serviceVars>>

(***************************************************************************)
(* Tracked predictions: follow-up schedule and labeled pairs.              *)
(***************************************************************************)
NotTracked == [status |-> 0]

NotQueried == [queried |-> FALSE, rows |-> <<>>]

\* the answers of a tracked request: any JSON value is accepted for a key
TrackedAnswers == {<<Entry("Age", PyInt(25))>>, <<Entry("Age", PyList)>>, <<>>}

Emails == {PyNone, PyStr("a@b.c")}

FollowUpDays == 42

\* str(uuid.uuid4()): an id that no row carries yet
FreshIds == {sid \in SessionIds :
               /\ RowsOf(predictions, sid) = {}
               /\ RowsOf(follow_up_schedules, sid) = {}
               /\ RowsOf(feedback, sid) = {}}

\* the response of /predict-with-tracking; saved and scheduled keep the
\* return values of save_prediction and schedule_follow_up, which the
\* handler drops
TrackingResponse(session_id, saved, scheduled) ==
    [status |-> 200, session_id |-> session_id, prediction |-> "high",
     follow_up_scheduled |-> TRUE, saved |-> saved, scheduled |-> scheduled]

\* POST /predict-with-tracking
predict_with_tracking ==
    \E session_id \in FreshIds, answers \in TrackedAnswers, user_email \in Emails :
      \E p \in {insert_prediction(predictions, session_id, user_email, answers,
                                  "high", write_locked)} :
        \E s \in {insert_follow_up(follow_up_schedules,
                                   follow_up_row(session_id, today, FollowUpDays,
                                                 IF user_email # PyNone THEN "email" ELSE "sms"),
                                   write_locked \/ p.leaks, p.ok)} :
          /\ predictions' = p.table
          /\ follow_up_schedules' = s.table
          /\ write_locked' = (write_locked \/ p.leaks \/ s.leaks)
          /\ tracked' = TrackingResponse(session_id, p.ok, s.ok)
          /\ UNCHANGED <<feedback, last_call, feedback_calls, labeled>>
          /\ UNCHANGED <<derivationVars, explainerVars, servingVars, attributionVars>>
          /\ UNCHANGED <<workerVars, encodingVars, feedbackLogVars, serviceVars>>

NoRequest == [feature |-> "", raw |-> ""]

NotEncoded == [done |-> FALSE]

NotLoaded == [loaded |-> FALSE, rows |-> <<>>]

(***************************************************************************)
(* The encoder applied to one value                                        *)
(***************************************************************************)
\* the tokens of a column's table; none for a column without table
TokensOf(column_name) ==
    IF column_name \notin DOMAIN LABEL_ENCODINGS THEN {}
    ELSE {LABEL_ENCODINGS[column_name][i][1] : i \in 1..Len(LABEL_ENCODINGS[column_name])}

\* raw values next to the tokens: differently cased and padded answers,
\* fragments of tokens, unknown answers and values that are not strings
OtherRawValues ==
    {PyStr(""), PyStr("n"), PyStr("e"), PyStr("y"), PyStr("Very Good"), PyStr(" YES "),
     PyStr("Moderately"), PyStr("unknown"), PyStr("5"), PyNone, PyInt(3)}

EncodeColumns == DOMAIN LABEL_ENCODINGS \cup {"Newborn illness"}

EncodeRequests ==
    UNION {{[feature |-> f, raw |-> v] :
                v \in {PyStr(t) : t \in TokensOf(f)} \cup OtherRawValues} :
           f \in EncodeColumns}

\* encode_categorical applied to the raw value, and to its text in upper
\* case, in lower case, padded with blanks and normalised
encode_value ==
    /\ ~enc_result.done
    /\ \E f \in {enc_request.feature}, text \in {py_str(enc_request.raw)} :
         enc_result' =
            [done |-> TRUE,
             code |-> encode_categorical(f, enc_request.raw),
             of_upper |-> encode_categorical(f, PyStr(Upper(text))),
             of_lower |-> encode_categorical(f, PyStr(Lower(text))),
             of_padded |-> encode_categorical(f, PyStr(" " \o text \o " ")),
             of_normalised |-> encode_categorical(f, PyStr(Strip(Lower(text))))]
    /\ UNCHANGED enc_request
    /\ UNCHANGED <<derivationVars, explainerVars, servingVars, attributionVars>>
    /\ UNCHANGED <<storeVars, workerVars, trackingVars, feedbackLogVars, serviceVars>>

(***************************************************************************)
(* The CSV logs: user_feedback.csv and the training set read from them     *)
(***************************************************************************)
\* the session ids a client sends with its feedback
FeedbackSessions == {"anonymous", "s1"}

MaxFeedback == 2

\* the row log_user_feedback appends to user_feedback.csv
feedback_log_row(session_id, actual_outcome, feedback_notes) ==
    [session_id |-> session_id, actual_outcome |-> actual_outcome,
     feedback_notes |-> IF feedback_notes = PyNone THEN "" ELSE feedback_notes.s]

\* POST /feedback (the handler the route resolves to)
submit_feedback ==
    /\ Len(user_feedback) < MaxFeedback
    /\ \E session_id \in FeedbackSessions, actual_outcome \in Labels, feedback_notes \in {PyNone} :
         IF ~collect_data
         THEN /\ resp' = HTTPException("feedback", 200, "data_collection_disabled")
              /\ UNCHANGED user_feedback
         ELSE /\ resp' = HTTPException("feedback", 200, "success")
              /\ user_feedback' = Append(user_feedback,
                                         feedback_log_row(session_id, actual_outcome,
                                                          feedback_notes))
    /\ steps' = <<>>
    /\ UNCHANGED <<model, collect_data, inbox, predictions_log, handed_frame, training_set>>
    /\ UNCHANGED <<derivationVars, explainerVars, attributionVars>>
    /\ UNCHANGED <<storeVars, workerVars, trackingVars, encodingVars, serviceVars>>

merged_row(p, f) ==
    [session_id |-> p.session_id, prediction |-> p.prediction, Age |-> p.Age,
     actual_outcome |-> f.actual_outcome]

RECURSIVE merged_with(_, _, _)
merged_with(p, fb, i) ==
    IF i > Len(fb) THEN <<>>
    ELSE <<merged_row(p, fb[i])>> \o merged_with(p, fb, i + 1)

\* predictions.merge(feedback, on="session_id", how="inner"): every pair of a
\* prediction row and a feedback row with the same session id
RECURSIVE merge(_, _, _)
merge(preds, fb, i) ==
    IF i > Len(preds) THEN <<>>
    ELSE merged_with(preds[i],
                     SelectSeq(fb, LAMBDA f : f.session_id = preds[i].session_id), 1)
           \o merge(preds, fb, i + 1)

\* retrain_model.load_feedback_data(): nothing when a log file is missing
load_feedback_data ==
    /\ ~training_set.loaded
    /\ training_set' =
          [loaded |-> TRUE,
           rows |-> IF predictions_log = <<>> \/ user_feedback = <<>> THEN <<>>
                    ELSE merge(predictions_log, user_feedback, 1)]
    /\ UNCHANGED user_feedback
    /\ UNCHANGED <<derivationVars, explainerVars, servingVars, attributionVars>>
    /\ UNCHANGED <<storeVars, workerVars, trackingVars, encodingVars, serviceVars>>

(***************************************************************************)
(* Start-up, statement by statement (the revision with a strategy type):   *)
(* startup_event calls initialize_shap_explainer, which assigns the        *)
(* explainer and its type in separate statements, and the request threads  *)
(* of the server read the two globals in get_shap_values.                  *)
(***************************************************************************)
RequestThreads == {1, 2}

\* what a thread read of _shap_explainer and _explainer_type
Seen(explainer, type) == [shap_explainer |-> explainer, explainer_type |-> type]

NotSeen == Seen("unread", "unread")

Waiting == [pc |-> "waiting", entry |-> NotSeen, compute |-> NotSeen]

StartupIdle ==
    /\ startup_pc = "loaded"
    /\ observers = [t \in RequestThreads |-> Waiting]

\* a variant in which the server takes requests while startup_event runs
accepting_during_startup == TRUE

\* the server takes requests once the startup handlers have returned
accepting == startup_pc = "serving"

\* startup_event up to `import shap` and the reading of feature_names_in_
startup_import ==
    /\ startup_pc = "loaded"
    /\ IF shap_import = "raised"
       THEN /\ startup_pc' = "serving"
            /\ UNCHANGED <<shap_explainer, shap_model, feature_names>>
       ELSE IF shap_import = "ImportError"
       THEN /\ startup_pc' = "serving"
            /\ shap_explainer' = "None"
            /\ UNCHANGED <<shap_model, feature_names>>
       ELSE /\ startup_pc' = "tree"
            /\ shap_model' = TRUE
            /\ feature_names' = IF model.has_feature_names
                                THEN [set |-> TRUE, names |-> model.feature_names_in_]
                                ELSE NoFeatureNames
            /\ UNCHANGED shap_explainer
    /\ started' = (startup_pc' = "serving")
    /\ UNCHANGED <<shap_import, shap_version, explainer_type, init_attempts, observers>>
    /\ UNCHANGED <<derivationVars, servingVars, attributionVars, storeVars, workerVars,
                   trackingVars, encodingVars, feedbackLogVars, reminderVars, scheduleVars,
                   routerVars>>

\* the statement that builds an explainer: shap.TreeExplainer(...) at
\* "tree", shap.Explainer(...) at "sampling"
startup_build ==
    /\ startup_pc \in {"tree", "sampling"}
    /\ \E build \in BuildOutcomes :
         LET tree == startup_pc = "tree"
             candidate == IF tree THEN tree_candidate(model)
                          ELSE feature_names.set /\ feature_names.names # <<>>
             strategy == IF tree THEN "tree" ELSE "sampling"
         IN IF candidate /\ build = "built"
            THEN /\ shap_explainer' = (IF tree THEN "TreeExplainer" ELSE "Explainer")
                 /\ startup_pc' = (IF tree THEN "tree_built" ELSE "sampling_built")
                 /\ init_attempts' = Append(init_attempts, Attempt(strategy, "init", "built"))
            ELSE /\ startup_pc' = (IF tree THEN "sampling" ELSE "fallback")
                 /\ init_attempts' = (IF candidate
                                      THEN Append(init_attempts,
                                                  Attempt(strategy, "init", "raised"))
                                      ELSE init_attempts)
                 /\ UNCHANGED shap_explainer
    /\ UNCHANGED <<shap_import, shap_version, started, explainer_type, shap_model,
                   feature_names, observers>>
    /\ UNCHANGED <<derivationVars, servingVars, attributionVars, storeVars, workerVars,
                   trackingVars, encodingVars, feedbackLogVars, reminderVars, scheduleVars,
                   routerVars>>

\* `_shap_explainer = None` of the last strategy
startup_fallback ==
    /\ startup_pc = "fallback"
    /\ shap_explainer' = "None"
    /\ startup_pc' = "fallback_set"
    /\ UNCHANGED <<shap_import, shap_version, started, explainer_type, shap_model,
                   feature_names, init_attempts, observers>>
    /\ UNCHANGED <<derivationVars, servingVars, attributionVars, storeVars, workerVars,
                   trackingVars, encodingVars, feedbackLogVars, reminderVars, scheduleVars,
                   routerVars>>

\* the assignment of _explainer_type that follows the one of the explainer,
\* and the return to startup_event
startup_type ==
    /\ startup_pc \in {"tree_built", "sampling_built", "fallback_set"}
    /\ explainer_type' = (CASE startup_pc = "tree_built" -> "tree"
                            [] startup_pc = "sampling_built" -> "permutation"
                            [] startup_pc = "fallback_set" -> "fallback")
    /\ startup_pc' = "serving"
    /\ started' = TRUE
    /\ UNCHANGED <<shap_import, shap_version, shap_explainer, shap_model, feature_names,
                   init_attempts, observers>>
    /\ UNCHANGED <<derivationVars, servingVars, attributionVars, storeVars, workerVars,
                   trackingVars, encodingVars, feedbackLogVars, reminderVars, scheduleVars,
                   routerVars>>

\* a request thread enters get_shap_values and tests the two globals
request_enters(t) ==
    /\ accepting
    /\ observers[t].pc = "waiting"
    /\ observers' = [observers EXCEPT ![t] =
                        [ pc |-> IF shap_explainer = "None" \/ explainer_type = "fallback"
                                 THEN "done" ELSE "computing",
                          entry |-> Seen(shap_explainer, explainer_type),
                          compute |-> NotSeen ]]
    /\ UNCHANGED <<startup_pc, explainerVars>>
    /\ UNCHANGED <<derivationVars, servingVars, attributionVars, storeVars, workerVars,
                   trackingVars, encodingVars, feedbackLogVars, reminderVars, scheduleVars,
                   routerVars>>

\* the thread reads the type and calls the explainer
request_computes(t) ==
    /\ observers[t].pc = "computing"
    /\ observers' = [observers EXCEPT ![t] =
                        [@ EXCEPT !.pc = "done",
                                  !.compute = Seen(shap_explainer, explainer_type)]]
    /\ UNCHANGED <<startup_pc, explainerVars>>
    /\ UNCHANGED <<derivationVars, servingVars, attributionVars, storeVars, workerVars,
                   trackingVars, encodingVars, feedbackLogVars, reminderVars, scheduleVars,
                   routerVars>>

(***************************************************************************)
(* The daily follow-up job of the scheduler.                               *)
(***************************************************************************)
MaxDay == 44

MaxReminders == 4

RemindersIdle ==
    /\ today = 0
    /\ reminders = <<>>

\* the steps of the clock: the next day, or the follow-up delay later
DaySteps == {1, FollowUpDays}

day_passes ==
    /\ \E d \in DaySteps :
         /\ today + d <= MaxDay
         /\ today' = today + d
    /\ UNCHANGED <<reminders, startupVars, scheduleVars, routerVars>>
    /\ UNCHANGED <<derivationVars, explainerVars, servingVars, attributionVars, storeVars,
                   workerVars, trackingVars, encodingVars, feedbackLogVars>>

\* the WHERE clause of get_pending_follow_ups: scheduled_date is stored as
\* "<date>T<time>" and datetime('now') reads "<date> <time>", so a row compares
\* below now from the day after its date
is_pending(row, now) ==
    /\ row.scheduled_date < now
    /\ row.follow_up_completed = 0

\* get_pending_follow_ups(): the ids (positions) of the due rows, in table order
RECURSIVE get_pending_follow_ups(_, _, _)
get_pending_follow_ups(table, now, i) ==
    IF i > Len(table) THEN <<>>
    ELSE (IF is_pending(table[i], now) THEN <<i>> ELSE <<>>)
            \o get_pending_follow_ups(table, now, i + 1)

\* the reminder handed to send_email_reminder or send_sms_reminder for the row id
Reminder(table, id, run_day) ==
    [id |-> id, session_id |-> table[id].session_id,
     method |-> table[id].follow_up_method, day |-> run_day]

\* one run of the job send_follow_up_reminders
send_follow_up_reminders ==
    \E pending \in {get_pending_follow_ups(follow_up_schedules, today, 1)} :
       /\ Len(reminders) + Len(pending) <= MaxReminders
       /\ reminders' = reminders
                          \o [k \in 1..Len(pending) |->
                                Reminder(follow_up_schedules, pending[k], today)]
       /\ UNCHANGED <<today, startupVars, scheduleVars, routerVars>>
       /\ UNCHANGED <<derivationVars, explainerVars, servingVars, attributionVars, storeVars,
                      workerVars, trackingVars, encodingVars, feedbackLogVars>>

(***************************************************************************)
(* The retraining schedule: scheduler_config.json and the retrain job.     *)
(***************************************************************************)
\* a timestamp of the config, None or datetime.now().isoformat()
NoStamp == [set |-> FALSE, day |-> 0]

Stamp(day) == [set |-> TRUE, day |-> day]

NoFile == [exists |-> FALSE, retrain_schedule |-> "", last_retrain |-> NoStamp,
           last_updated |-> NoStamp]

ConfigFile(schedule, last_retrain, last_updated) ==
    [exists |-> TRUE, retrain_schedule |-> schedule, last_retrain |-> last_retrain,
     last_updated |-> last_updated]

\* get_schedule_config(): the dict of the file, or the default one
get_schedule_config(file) ==
    IF file.exists THEN file
    ELSE ConfigFile("weekly", NoStamp, NoStamp)

\* save_schedule_config(schedule): the dict written to the file
save_schedule_config(file, schedule, now) ==
    ConfigFile(schedule, NoStamp, Stamp(now))

NotStarted == [set |-> FALSE, jobs |-> {}]

Job(id, name) == [id |-> id, name |-> name]

\* the retrain job of a schedule, under the one id 'weekly_retrain'
retrain_jobs(schedule) ==
    CASE schedule = "daily" -> {Job("weekly_retrain", "Daily Model Retraining")}
      [] schedule = "weekly" -> {Job("weekly_retrain", "Weekly Model Retraining")}
      [] OTHER -> {}

NoScheduleCall == [op |-> "none", schedule |-> "", success |-> FALSE, last_retrain |-> NoStamp,
                   last_updated |-> NoStamp]

ScheduleIdle ==
    /\ config_file = NoFile
    /\ scheduler = NotStarted
    /\ schedule_call = NoScheduleCall

\* the names POST /admin/retrain-schedule may carry
ScheduleNames == {"daily", "weekly", "manual", "monthly"}

\* open(CONFIG_FILE, "w") and json.dump: the file is written, or the call raises
WriteOutcomes == {"written", "raised"}

start_scheduler ==
    /\ ~scheduler.set
    /\ scheduler' =
          [set |-> TRUE,
           jobs |-> {Job("daily_followups", "Daily Follow-up Reminders"),
                     Job("daily_quality_check", "Data Quality Monitor")}
                       \cup retrain_jobs(get_schedule_config(config_file).retrain_schedule)]
    /\ UNCHANGED <<config_file, schedule_call, startupVars, reminderVars, routerVars>>
    /\ UNCHANGED <<derivationVars, explainerVars, servingVars, attributionVars, storeVars,
                   workerVars, trackingVars, encodingVars, feedbackLogVars>>

update_retrain_schedule ==
    \E schedule \in ScheduleNames, write \in WriteOutcomes :
       /\ IF schedule \notin {"daily", "weekly", "manual"}
          THEN /\ schedule_call' = [NoScheduleCall EXCEPT !.op = "update_retrain_schedule",
                                                          !.schedule = schedule]
               /\ UNCHANGED <<config_file, scheduler>>
          ELSE /\ config_file' = (IF write = "written"
                                  THEN save_schedule_config(config_file, schedule, today)
                                  ELSE config_file)
               /\ scheduler' =
                     (IF scheduler.set
                      THEN [scheduler EXCEPT !.jobs =
                              {j \in @ : j.id # "weekly_retrain"} \cup retrain_jobs(schedule)]
                      ELSE scheduler)
               /\ schedule_call' = [NoScheduleCall EXCEPT !.op = "update_retrain_schedule",
                                                          !.schedule = schedule,
                                                          !.success = TRUE]
       /\ UNCHANGED <<startupVars, reminderVars, routerVars>>
       /\ UNCHANGED <<derivationVars, explainerVars, servingVars, attributionVars, storeVars,
                      workerVars, trackingVars, encodingVars, feedbackLogVars>>

trigger_manual_retrain ==
    \E write \in WriteOutcomes :
       /\ config_file' = (IF write = "written"
                          THEN [get_schedule_config(config_file)
                                   EXCEPT !.last_retrain = Stamp(today)]
                          ELSE config_file)
       /\ schedule_call' = [NoScheduleCall EXCEPT !.op = "trigger_manual_retrain",
                                                  !.success = (write = "written")]
       /\ UNCHANGED <<scheduler, startupVars, reminderVars, routerVars>>
       /\ UNCHANGED <<derivationVars, explainerVars, servingVars, attributionVars, storeVars,
                      workerVars, trackingVars, encodingVars, feedbackLogVars>>

get_current_schedule ==
    /\ \E config \in {get_schedule_config(config_file)} :
          schedule_call' = [op |-> "get_current_schedule",
                            schedule |-> config.retrain_schedule,
                            success |-> TRUE,
                            last_retrain |-> config.last_retrain,
                            last_updated |-> config.last_updated]
    /\ UNCHANGED <<config_file, scheduler, startupVars, reminderVars, routerVars>>
    /\ UNCHANGED <<derivationVars, explainerVars, servingVars, attributionVars, storeVars,
                   workerVars, trackingVars, encodingVars, feedbackLogVars>>

(***************************************************************************)
(* The chat router (llm_adapter.LLMRouter): an external LLM through an     *)
(* adapter, or the rule-based fallback.                                    *)
(***************************************************************************)
NoConfig == [set |-> FALSE, provider |-> "", api_key |-> ""]

LLMConfig(provider, api_key) == [set |-> TRUE, provider |-> provider, api_key |-> api_key]

NoAdapter == "None"

\* LLMConfig.is_valid
is_valid(config) ==
    /\ config.api_key # ""
    /\ Strip(config.api_key) # ""
    /\ config.api_key # "your_api_key_here"

\* create_adapter(config).provider_name; a custom provider gets the OpenAI adapter
create_adapter(config) ==
    CASE config.provider = "openai" -> "OpenAI"
      [] config.provider = "gemini" -> "Google Gemini"
      [] config.provider = "custom" -> "OpenAI"

\* the handlers _fallback_handler may hold: the rule-based chatbot, the
\* inline emergency text, or None
Handlers == {"fallback_handler", "_emergency_fallback", "None"}

NoReply ==
    [raised |-> FALSE, response |-> "", provider |-> "", success |-> FALSE,
     using_llm |-> FALSE, adapter_call |-> "none", handler_call |-> "none"]

\* the dict chat returns, with how the adapter and the handler calls ended
Reply200(response, provider, using_llm, adapter_call, handler_call) ==
    [raised |-> FALSE, response |-> response, provider |-> provider, success |-> TRUE,
     using_llm |-> using_llm, adapter_call |-> adapter_call, handler_call |-> handler_call]

RouterIdle ==
    /\ router_config = NoConfig
    /\ router_adapter = NoAdapter
    /\ fallback_handler = "None"
    /\ chat_reply = NoReply

Providers == {"openai", "gemini", "custom"}

ApiKeys == {"", "  ", "your_api_key_here", "sk-live"}

\* LLMRouter.configure(provider, api_key)
configure ==
    /\ \E provider \in Providers, api_key \in ApiKeys :
         \E config \in {LLMConfig(provider, api_key)} :
            /\ router_config' = config
            /\ router_adapter' = IF is_valid(config) THEN create_adapter(config) ELSE NoAdapter
    /\ UNCHANGED <<fallback_handler, chat_reply, startupVars, reminderVars, scheduleVars>>
    /\ UNCHANGED <<derivationVars, explainerVars, servingVars, attributionVars, storeVars,
                   workerVars, trackingVars, encodingVars, feedbackLogVars>>

\* LLMRouter.set_fallback_handler(handler)
set_fallback_handler ==
    /\ \E handler \in Handlers : fallback_handler' = handler
    /\ UNCHANGED <<router_config, router_adapter, chat_reply, startupVars, reminderVars,
                   scheduleVars>>
    /\ UNCHANGED <<derivationVars, explainerVars, servingVars, attributionVars, storeVars,
                   workerVars, trackingVars, encodingVars, feedbackLogVars>>

is_llm_available(adapter, config) ==
    adapter # NoAdapter /\ config.set /\ is_valid(config)

\* how a call of the adapter or of the handler may end: adapters return a
\* response that succeeded or failed, the handler returns or raises
AdapterOutcomes == {"succeeded", "failed"}

HandlerOutcomes == {"returned", "raised"}

\* the static text of the last resort
default_reply(adapter_call, handler_call) ==
    Reply200("Thank you for sharing.", "Default Fallback", FALSE, adapter_call, handler_call)

\* a variant without the try around the handler: its exception leaves chat
use_fallback_unguarded(handler, user_message, adapter_call, handler_outcome) ==
    IF handler # "None"
    THEN IF handler_outcome = "returned"
         THEN Reply200(handler, "Rule-Based Fallback", FALSE, adapter_call, "returned")
         ELSE [NoReply EXCEPT !.raised = TRUE, !.adapter_call = adapter_call,
                              !.handler_call = "raised"]
    ELSE default_reply(adapter_call, "none")

\* LLMRouter._use_fallback(user_message)
use_fallback(handler, user_message, adapter_call, handler_outcome) ==
    IF handler # "None"
    THEN IF handler_outcome = "returned"
         THEN Reply200(handler, "Rule-Based Fallback", FALSE, adapter_call, "returned")
         ELSE default_reply(adapter_call, "raised")
    ELSE default_reply(adapter_call, "none")

\* the message lists a chat request carries
Conversations == {<<>>, <<"hello">>, <<"hello", "i feel sad">>}

Last(messages) == IF messages = <<>> THEN "" ELSE messages[Len(messages)]

\* LLMRouter.chat(messages, patient_context)
chat ==
    /\ \E messages \in Conversations, adapter_outcome \in AdapterOutcomes,
          handler_outcome \in HandlerOutcomes :
         IF is_llm_available(router_adapter, router_config) /\ adapter_outcome = "succeeded"
         THEN chat_reply' = Reply200("llm", router_adapter, TRUE, "succeeded", "none")
         ELSE chat_reply' =
                 use_fallback(fallback_handler, Last(messages),
                              IF is_llm_available(router_adapter, router_config)
                              THEN "failed" ELSE "none",
                              handler_outcome)
    /\ UNCHANGED <<router_config, router_adapter, fallback_handler, startupVars,
                   reminderVars, scheduleVars>>
    /\ UNCHANGED <<derivationVars, explainerVars, servingVars, attributionVars, storeVars,
                   workerVars, trackingVars, encodingVars, feedbackLogVars>>

ServiceIdle == StartupIdle /\ RemindersIdle /\ ScheduleIdle /\ RouterIdle
(***************************************************************************)
(* Specifications.  Each one starts the part it exercises from the states  *)
(* it can be in and leaves the other parts idle.                           *)
(***************************************************************************)
Requests == MinimalRequests \cup FullRequests \cup BatchRequests

DerivationIdle ==
    /\ user_inputs = <<>>
    /\ derived = NotRun

\* the shipped classifier, the current explainer module not initialised
ExplainerIdle ==
    /\ shap_import = "imported"
    /\ shap_version = "current"
    /\ started = FALSE
    /\ shap_explainer = "None"
    /\ explainer_type = "None"
    /\ shap_model = FALSE
    /\ feature_names = NoFeatureNames
    /\ init_attempts = <<>>

ServingIdle ==
    /\ model = ShippedEnsemble
    /\ collect_data = TRUE
    /\ inbox = <<>>
    /\ resp = NoResponse
    /\ steps = <<>>
    /\ predictions_log = <<>>
    /\ handed_frame = NotHanded

AttributionIdle ==
    /\ instance = [df |-> <<>>, top_k |-> 0]
    /\ explained = NotExplained
    /\ request_attempts = <<>>

\* the store after init_db: the tables exist and are empty
StoreIdle ==
    /\ predictions = <<>>
    /\ feedback = <<>>
    /\ write_locked = FALSE
    /\ last_call = NoCall
    /\ feedback_calls = {}

\* no concurrent call is running
WorkersIdle ==
    /\ workers = [w \in Workers |-> IdleWorker]
    /\ lock_holder = 0

\* no tracked prediction was made and the labeled pairs were not queried
TrackingIdle ==
    /\ follow_up_schedules = <<>>
    /\ tracked = NotTracked
    /\ labeled = NotQueried

\* no value was handed to the encoder
EncodingIdle ==
    /\ enc_request = NoRequest
    /\ enc_result = NotEncoded

\* no feedback was logged and the training set was not loaded
FeedbackLogIdle ==
    /\ user_feedback = <<>>
    /\ training_set = NotLoaded

\* the explainer states the current module can be in after start-up
StartedCurrent ==
    /\ shap_version = "current"
    /\ started = TRUE
    /\ shap_import \in ImportOutcomes
    /\ shap_explainer \in {"None", "KernelExplainer"}
    /\ shap_explainer = "KernelExplainer" => shap_import = "imported"
    /\ shap_model = (shap_import = "imported")
    /\ explainer_type = "None"
    /\ feature_names = NoFeatureNames
    /\ init_attempts = <<>>

(***************************************************************************)
(* The service after start-up: a classifier is loaded, the explainer is    *)
(* built or not, and a request is in flight to a prediction endpoint.      *)
(***************************************************************************)
InitPredict ==
    /\ model \in Models
    /\ collect_data \in BOOLEAN
    /\ StartedCurrent
    /\ inbox \in {<<r>> : r \in Requests}
    /\ resp = NoResponse
    /\ steps = <<>>
    /\ predictions_log = <<>>
    /\ handed_frame = NotHanded
    /\ DerivationIdle
    /\ AttributionIdle
    /\ StoreIdle
    /\ WorkersIdle
    /\ TrackingIdle
    /\ EncodingIdle
    /\ FeedbackLogIdle
    /\ ServiceIdle

NextPredict ==
    \/ predict_minimal
    \/ predict
    \/ batch_assess

SpecPredict == InitPredict /\ [][NextPredict]_vars

(***************************************************************************)
(* The attribution engine: the explainer is built at start-up for the      *)
(* loaded classifier, then get_shap_values is called for an instance.      *)
(***************************************************************************)
InitShap ==
    /\ model \in ShapModels
    /\ shap_version \in {"current", "history"}
    /\ shap_import \in ImportOutcomes
    /\ started = FALSE
    /\ shap_explainer = "None"
    /\ explainer_type = "None"
    /\ shap_model = FALSE
    /\ feature_names = NoFeatureNames
    /\ init_attempts = <<>>
    /\ instance \in Instances
    /\ explained = NotExplained
    /\ request_attempts = <<>>
    /\ collect_data = TRUE
    /\ inbox = <<>>
    /\ resp = NoResponse
    /\ steps = <<>>
    /\ predictions_log = <<>>
    /\ handed_frame = NotHanded
    /\ DerivationIdle
    /\ StoreIdle
    /\ WorkersIdle
    /\ TrackingIdle
    /\ EncodingIdle
    /\ FeedbackLogIdle
    /\ ServiceIdle

NextShap ==
    \/ initialize_explainer
    \/ explain

SpecShap == InitShap /\ [][NextShap]_vars

(***************************************************************************)
(* The feedback store: predictions and outcomes are saved in any order.    *)
(***************************************************************************)
InitDb ==
    /\ StoreIdle
    /\ WorkersIdle
    /\ TrackingIdle
    /\ EncodingIdle
    /\ FeedbackLogIdle
    /\ ServiceIdle
    /\ DerivationIdle
    /\ ExplainerIdle
    /\ ServingIdle
    /\ AttributionIdle

NextDb ==
    \/ save_prediction
    \/ save_feedback
    \/ release_leaked_connection
    \/ get_predictions_with_feedback

SpecDb == InitDb /\ [][NextDb]_vars

(***************************************************************************)
(* Two save_prediction calls run concurrently on the initialised store.    *)
(***************************************************************************)
InitConc ==
    /\ workers \in [Workers -> {Worker("called", sid, label, FALSE)
                                  : sid \in SessionIds, label \in Labels}]
    /\ lock_holder = 0
    /\ StoreIdle
    /\ TrackingIdle
    /\ EncodingIdle
    /\ FeedbackLogIdle
    /\ ServiceIdle
    /\ DerivationIdle
    /\ ExplainerIdle
    /\ ServingIdle
    /\ AttributionIdle

NextConc ==
    \/ \E w \in Workers : worker_connect(w)
    \/ \E w \in Workers : worker_execute(w)
    \/ \E w \in Workers : worker_commit(w)
    \/ \E w \in Workers : worker_close(w)
    \/ release_leaked_connection

SpecConc == InitConc /\ [][NextConc]_vars

(***************************************************************************)
(* Tracked predictions with the outcomes reported for them.                *)
(***************************************************************************)
InitTrack == InitDb

NextTrack ==
    \/ predict_with_tracking
    \/ save_feedback
    \/ release_leaked_connection
    \/ get_predictions_with_feedback

SpecTrack == InitTrack /\ [][NextTrack]_vars

(***************************************************************************)
(* Data collection: two prediction requests are served and logged,         *)
(* feedback arrives, and the retraining script loads the labeled set.      *)
(***************************************************************************)
LoggedRequests ==
    { Request("predict_minimal", Nested(<<Entry("age", PyInt(25))>>)),
      Request("predict", Flat(<< Entry("Age", PyInt(23)),
                                 Entry("Number_of_the_latest_pregnancy", PyInt(1)) >>)),
      Request("batch_assess",
              [file |-> Csv(<< <<Entry("age", PyInt(25))>> >>), save_to_log |-> TRUE]) }

InitLogs ==
    /\ model = ShippedEnsemble
    /\ collect_data \in BOOLEAN
    /\ StartedCurrent
    /\ inbox \in {<<first, second>> : first \in LoggedRequests,
                                       second \in {r \in LoggedRequests : r.endpoint = "predict_minimal"}}
    /\ resp = NoResponse
    /\ steps = <<>>
    /\ predictions_log = <<>>
    /\ handed_frame = NotHanded
    /\ DerivationIdle
    /\ AttributionIdle
    /\ StoreIdle
    /\ WorkersIdle
    /\ TrackingIdle
    /\ EncodingIdle
    /\ FeedbackLogIdle
    /\ ServiceIdle

NextLogs ==
    \/ predict_minimal
    \/ predict
    \/ batch_assess
    \/ submit_feedback
    \/ load_feedback_data

SpecLogs == InitLogs /\ [][NextLogs]_vars

(***************************************************************************)
(* Feature derivation as a state machine: an answer set arrives, and       *)
(* derive_all_features is applied to it.                                   *)
(***************************************************************************)
InitDerive ==
    /\ user_inputs \in AnswerSets
    /\ derived = NotRun
    /\ ExplainerIdle
    /\ ServingIdle
    /\ AttributionIdle
    /\ StoreIdle
    /\ WorkersIdle
    /\ TrackingIdle
    /\ EncodingIdle
    /\ FeedbackLogIdle
    /\ ServiceIdle

Derive ==
    /\ derived = NotRun
    /\ derived' = derive_all_features(user_inputs)
    /\ UNCHANGED <<user_inputs, explainerVars, servingVars, attributionVars, storeVars,
                   workerVars, trackingVars, encodingVars, feedbackLogVars, serviceVars>>

NextDerive == Derive

SpecDerive == InitDerive /\ [][NextDerive]_vars

(***************************************************************************)
(* The composite scores: every combination of the three support categories *)
(* and of the three stress answers is derived.                             *)
(***************************************************************************)
StressKeys == <<"fear_pregnancy", "pregnancy_complications", "major_changes">>

ScoreAnswerSets ==
    {<<Entry("family_support", PyStr(support)),
       Entry("relationship_husband", PyStr(husband)),
       Entry("relationship_inlaws", PyStr(inlaws)),
       Entry(StressKeys[1], PyStr(stress[1])),
       Entry(StressKeys[2], PyStr(stress[2])),
       Entry(StressKeys[3], PyStr(stress[3]))>> :
        support \in CategoryOptions["family_support"],
        husband \in CategoryOptions["relationship_husband"],
        inlaws \in CategoryOptions["relationship_inlaws"],
        stress \in [1..Len(StressKeys) -> {"yes", "no"}]}

InitScores ==
    /\ user_inputs \in ScoreAnswerSets
    /\ derived = NotRun
    /\ ExplainerIdle
    /\ ServingIdle
    /\ AttributionIdle
    /\ StoreIdle
    /\ WorkersIdle
    /\ TrackingIdle
    /\ EncodingIdle
    /\ FeedbackLogIdle
    /\ ServiceIdle

NextScores == Derive

SpecScores == InitScores /\ [][NextScores]_vars

(***************************************************************************)
(* The encoder: a column name and a raw value arrive and are encoded.      *)
(***************************************************************************)
InitEncode ==
    /\ enc_request \in EncodeRequests
    /\ enc_result = NotEncoded
    /\ DerivationIdle
    /\ ExplainerIdle
    /\ ServingIdle
    /\ AttributionIdle
    /\ StoreIdle
    /\ WorkersIdle
    /\ TrackingIdle
    /\ FeedbackLogIdle
    /\ ServiceIdle

NextEncode == encode_value

SpecEncode == InitEncode /\ [][NextEncode]_vars

(***************************************************************************)
(* Start-up against concurrent requests.                                   *)
(***************************************************************************)
InitStartup ==
    /\ model \in ShapModels
    /\ shap_import \in ImportOutcomes
    /\ shap_version = "history"
    /\ started = FALSE
    /\ shap_explainer = ModuleLoaded.shap_explainer
    /\ explainer_type = ModuleLoaded.explainer_type
    /\ shap_model = ModuleLoaded.shap_model
    /\ feature_names = ModuleLoaded.feature_names
    /\ init_attempts = ModuleLoaded.attempts
    /\ collect_data = TRUE
    /\ inbox = <<>>
    /\ resp = NoResponse
    /\ steps = <<>>
    /\ predictions_log = <<>>
    /\ handed_frame = NotHanded
    /\ DerivationIdle
    /\ AttributionIdle
    /\ StoreIdle
    /\ WorkersIdle
    /\ TrackingIdle
    /\ EncodingIdle
    /\ FeedbackLogIdle
    /\ StartupIdle
    /\ RemindersIdle
    /\ ScheduleIdle
    /\ RouterIdle

NextStartup ==
    \/ startup_import
    \/ startup_build
    \/ startup_fallback
    \/ startup_type
    \/ \E t \in RequestThreads : request_enters(t)
    \/ \E t \in RequestThreads : request_computes(t)

SpecStartup == InitStartup /\ [][NextStartup]_vars

(***************************************************************************)
(* Tracked predictions, the clock and the daily follow-up job.             *)
(***************************************************************************)
InitReminders == InitDb

NextReminders ==
    \/ predict_with_tracking
    \/ day_passes
    \/ send_follow_up_reminders

SpecReminders == InitReminders /\ [][NextReminders]_vars

(***************************************************************************)
(* The schedule functions, called in any order within one day.             *)
(***************************************************************************)
InitSchedule ==
    /\ DerivationIdle
    /\ ExplainerIdle
    /\ ServingIdle
    /\ AttributionIdle
    /\ StoreIdle
    /\ WorkersIdle
    /\ TrackingIdle
    /\ EncodingIdle
    /\ FeedbackLogIdle
    /\ ServiceIdle

NextSchedule ==
    \/ start_scheduler
    \/ update_retrain_schedule
    \/ trigger_manual_retrain
    \/ get_current_schedule

SpecSchedule == InitSchedule /\ [][NextSchedule]_vars

(***************************************************************************)
(* The chat router after LLMRouter(): the fallback handler is the chatbot  *)
(* or the emergency text, and the environment names a key or none.         *)
(***************************************************************************)
InitRouter ==
    /\ fallback_handler \in {"fallback_handler", "_emergency_fallback"}
    /\ router_config \in {NoConfig, LLMConfig("openai", "sk-live")}
    /\ router_adapter = IF router_config.set THEN create_adapter(router_config) ELSE NoAdapter
    /\ chat_reply = NoReply
    /\ DerivationIdle
    /\ ExplainerIdle
    /\ ServingIdle
    /\ AttributionIdle
    /\ StoreIdle
    /\ WorkersIdle
    /\ TrackingIdle
    /\ EncodingIdle
    /\ FeedbackLogIdle
    /\ StartupIdle
    /\ RemindersIdle
    /\ ScheduleIdle

NextRouter ==
    \/ configure
    \/ set_fallback_handler
    \/ chat

SpecRouter == InitRouter /\ [][NextRouter]_vars
\* ---------------------------------------------------------------------------
\* Properties of feature derivation
\* ---------------------------------------------------------------------------

\* data_collector.FEATURE_COLUMNS: the columns the classifier is fed
FEATURE_COLUMNS ==
    << "Age", "Number of the latest pregnancy", "Education Level",
       "Husband's education level", "Total children", "Family type",
       "Disease before pregnancy", "Pregnancy length", "Pregnancy plan",
       "Regular checkups", "Fear of pregnancy", "Diseases during pregnancy",
       "Feeling about motherhood", "Recieved Support", "Need for Support",
       "Major changes or losses during pregnancy", "Abuse",
       "Trust and share feelings", "Feeling for regular activities",
       "Angry after latest child birth", "Relationship with the in-laws",
       "Relationship with husband", "Relationship with the newborn",
       "Relationship between father and newborn",
       "Age of immediate older children", "Birth compliancy", "Breastfeed",
       "Worry about newborn", "Relax/sleep when newborn is tended",
       "Relax/sleep when the newborn is asleep",
       "Depression before pregnancy (PHQ2)",
       "Depression during pregnancy (PHQ2)", "Newborn illness" >>

\* the engineered features derive_all_features adds for the ensemble
ENGINEERED_FEATURES ==
    { "age_squared", "age_parity_interaction", "age_very_young", "age_young",
      "age_optimal", "age_advanced", "phq9_minimal", "phq9_mild",
      "phq9_moderate", "phq9_severe", "high_parity_risk", "history_loss_flag",
      "abuse_flag", "depression_history_flag", "social_support_index",
      "low_support_flag", "pregnancy_stress_score", "cumulative_risk_score" }

RequiredColumns ==
    {FEATURE_COLUMNS[i] : i \in 1..Len(FEATURE_COLUMNS)} \cup ENGINEERED_FEATURES

\* what each required column holds when nothing but the age was answered:
\* the age-dependent columns as functions of the age a, the others the
\* encoded defaults (one pregnancy, college education, nuclear family,
\* PHQ-9 total 0, medium support, good/neutral relationships, ...)
DefaultColumn(c, a) ==
    CASE c = "Age" -> PyInt(a)
      [] c = "age_squared" -> PyInt(a * a)
      [] c = "age_parity_interaction" -> PyInt(a)
      [] c = "age_very_young" -> PyInt(IF a < 21 THEN 1 ELSE 0)
      [] c = "age_young" -> PyInt(IF 21 <= a /\ a < 25 THEN 1 ELSE 0)
      [] c = "age_optimal" -> PyInt(IF 25 <= a /\ a <= 35 THEN 1 ELSE 0)
      [] c = "age_advanced" -> PyInt(IF a > 35 THEN 1 ELSE 0)
      [] c = "Newborn illness" -> PyStr("no")
      [] c = "social_support_index" -> PyFloat(675)
      [] c = "pregnancy_stress_score" -> PyFloat(0)
      [] c = "cumulative_risk_score" -> PyFloat(650)
      [] c \in { "Relationship with the in-laws" } -> PyInt(3)
      [] c \in { "Age of immediate older children" } -> PyInt(4)
      [] c \in { "Recieved Support", "Need for Support",
                 "Trust and share feelings", "Relationship with husband" } -> PyInt(2)
      [] c \in { "Number of the latest pregnancy", "Total children",
                 "Family type", "Pregnancy length", "Pregnancy plan",
                 "Regular checkups", "Feeling about motherhood", "Abuse",
                 "Relationship with the newborn",
                 "Relationship between father and newborn",
                 "Birth compliancy", "Breastfeed",
                 "Relax/sleep when newborn is tended",
                 "Relax/sleep when the newborn is asleep",
                 "phq9_minimal" } -> PyInt(1)
      [] OTHER -> PyInt(0)

\* the answer set holds the key age and nothing else, its value a number
AgeOnlyAnswers ==
    /\ Len(user_inputs) = 1
    /\ user_inputs[1].k = "age"
    /\ IsNumber(user_inputs[1].v)

\* C1: for an answer set whose only key is a numeric age, derive_all_features
\* returns without raising, the returned vector has every name of
\* FEATURE_COLUMNS and every engineered feature, and each of these columns
\* holds the value its default gives (the age columns the value the age gives).
C1_AgeOnlyGivesDefaults ==
    (AgeOnlyAnswers /\ derived # NotRun) =>
        /\ derived.outcome = "returned"
        /\ RequiredColumns \subseteq DictKeys(derived.features)
        /\ \A c \in RequiredColumns :
              DictGet(derived.features, c, PyNone)
                  = DefaultColumn(c, py_int(user_inputs[1].v).n)

\* derivation has returned for an answer set that holds only a fractional age
C1_AgeOnlyDerived ==
    /\ AgeOnlyAnswers
    /\ user_inputs[1].v.t = "float"
    /\ derived.outcome = "returned"

\* C2: derive_all_features never raises, whatever the answer set (an absent,
\* null or non-numeric age, number_of_pregnancies, phq9_score or phq9_q1..q9
\* is replaced by the field's default and a feature vector is returned).
C2_NeverRaises == derived.outcome # "raised"


\* the code the table of a column gives a token
TableCode(column_name, token) ==
    LET encoding == LABEL_ENCODINGS[column_name]
    IN encoding[CHOOSE i \in 1..Len(encoding) : encoding[i][1] = token][2]

\* the five severity bands of the PHQ-9 total
SeverityBands ==
    [b \in {"minimal", "mild", "moderate", "moderately severe", "severe"} |->
        CASE b = "minimal" -> 0..4
          [] b = "mild" -> 5..9
          [] b = "moderate" -> 10..14
          [] b = "moderately severe" -> 15..19
          [] b = "severe" -> 20..27]

\* the derivation returned and its vector holds this value in this column
Derived(c, v) ==
    /\ derived.outcome = "returned"
    /\ DictGet(derived.features, c, PyNone) = v

\* C15: the score bucketing of derive_all_features is a total,
\* non-overlapping partition of 0..27 into minimal (<= 4), mild (5..9),
\* moderate (10..14), moderately severe (15..19) and severe (>= 20): every
\* score lies in exactly one band, and the encoded PHQ9 Result is the table
\* code of that band.
C15_ScoreBandsPartition ==
    /\ \A sc \in 0..27 :
         Cardinality({b \in DOMAIN SeverityBands : sc \in SeverityBands[b]}) = 1
    /\ \A sc \in 0..27 :
         Derived("PHQ9 Score", PyInt(sc)) =>
            \A b \in DOMAIN SeverityBands :
               sc \in SeverityBands[b] =>
                  Derived("PHQ9 Result", PyInt(TableCode("PHQ9 Result", b)))

\* a vector was derived for the boundary score 15, in the band moderately
\* severe
C15_BoundaryScoreDerived ==
    /\ Derived("PHQ9 Score", PyInt(15))
    /\ Derived("PHQ9 Result", PyInt(3))

\* the sub-score of a support level and of a relationship category, in
\* thousandths
SupportSubScore == [high |-> 1000, medium |-> 500, low |-> 0]

RelationSubScore ==
    [good |-> 1000, friendly |-> 1000, neutral |-> 500, bad |-> 0, poor |-> 0]

StressSubScore == [yes |-> 1000, no |-> 0]

Answer(key) == DictGet(user_inputs, key, PyNone).s

\* C16: for every combination of the support level and the two relationship
\* categories, and of the three yes/no stress answers, social_support_index
\* is 0.40*support + 0.35*husband + 0.25*inlaws with sub-scores 0, 0.5 or 1,
\* pregnancy_stress_score is 0.3*fear + 0.3*complications + 0.4*major
\* changes, and both lie in [0, 1] (values in thousandths).
C16_CompositeScoresBounded ==
    derived # NotRun =>
        /\ derived.outcome = "returned"
        /\ \A c \in {"social_support_index", "pregnancy_stress_score"} :
              /\ DictGet(derived.features, c, PyNone).t = "float"
              /\ DictGet(derived.features, c, PyNone).n \in 0..1000
        /\ DictGet(derived.features, "social_support_index", PyNone).n * 100
              = 40 * SupportSubScore[Answer("family_support")]
                  + 35 * RelationSubScore[Answer("relationship_husband")]
                  + 25 * RelationSubScore[Answer("relationship_inlaws")]
        /\ DictGet(derived.features, "pregnancy_stress_score", PyNone).n * 10
              = 3 * StressSubScore[Answer("fear_pregnancy")]
                  + 3 * StressSubScore[Answer("pregnancy_complications")]
                  + 4 * StressSubScore[Answer("major_changes")]

\* high support, a good husband and neutral in-laws give 0.875; fear and
\* major changes without complications give 0.7
C16_MixedScoresDerived ==
    /\ Answer("relationship_inlaws") = "neutral"
    /\ Answer("pregnancy_complications") = "no"
    /\ Derived("social_support_index", PyFloat(875))
    /\ Derived("pregnancy_stress_score", PyFloat(700))

\* the normalised answer to the depression-history question ("no" when it
\* is absent or null)
HistoryAnswer ==
    LET val == DictGet(RekeyFrom(user_inputs, 1, <<>>), "depression_history", PyNone)
    IN IF val = PyNone THEN "no" ELSE Strip(Lower(py_str(val)))

\* C17: for the sample answer set derive_all_features yields the band
\* moderate, depression_history_flag = 1 (the history is no, but the score
\* is at least 10), both sleep-quality proxies no and social_support_index
\* 0.875; in general depression_history_flag is 1 exactly when the
\* depression-history answer is yes or the score is at least 10.
C17_SampleAndHistoryFlag ==
    /\ (user_inputs = sample_inputs /\ derived # NotRun) =>
         /\ Derived("PHQ9 Result", PyInt(TableCode("PHQ9 Result", "moderate")))
         /\ Derived("depression_history_flag", PyInt(1))
         /\ Derived("Relax/sleep when newborn is tended",
                    PyInt(TableCode("Relax/sleep when newborn is tended", "no")))
         /\ Derived("Relax/sleep when the newborn is asleep",
                    PyInt(TableCode("Relax/sleep when the newborn is asleep", "no")))
         /\ Derived("social_support_index", PyFloat(875))
    /\ derived.outcome = "returned" =>
         (Derived("depression_history_flag", PyInt(1))
            <=> (HistoryAnswer = "yes"
                   \/ DictGet(derived.features, "PHQ9 Score", PyNone).n >= 10))
    /\ derived.outcome = "returned" =>
         DictGet(derived.features, "depression_history_flag", PyNone) \in {PyInt(0), PyInt(1)}

\* the sample answers were derived
C17_SampleDerived ==
    /\ user_inputs = sample_inputs
    /\ Derived("depression_history_flag", PyInt(1))
    /\ Derived("PHQ9 Score", PyInt(12))

\* the severity flags among the engineered features, each with the band it names
SeverityFlags ==
    [minimal |-> "phq9_minimal", mild |-> "phq9_mild", moderate |-> "phq9_moderate",
     severe |-> "phq9_severe"]

\* the band whose code the derived "PHQ9 Result" carries
ReportedBand ==
    CHOOSE b \in DOMAIN SeverityBands :
        Derived("PHQ9 Result", PyInt(TableCode("PHQ9 Result", b)))

\* C23: the severity flags phq9_minimal, phq9_mild, phq9_moderate and
\* phq9_severe of a derived answer set mirror the bands of "PHQ9 Result":
\* for every score exactly one flag is 1, and that flag names the band that
\* "PHQ9 Result" reports for the score.
C23_SeverityFlagsMirrorBands ==
    derived.outcome = "returned" =>
        /\ Cardinality({b \in DOMAIN SeverityFlags :
                           Derived(SeverityFlags[b], PyInt(1))}) = 1
        /\ \A b \in DOMAIN SeverityFlags :
              Derived(SeverityFlags[b], PyInt(1)) => ReportedBand = b

\* C24: after the encoding at the end of derive_all_features every value of
\* the returned feature vector is a number, for every answer set, the ones
\* with a null husbands_education included.
C24_EveryFeatureNumeric ==
    derived.outcome = "returned" =>
        \A i \in 1..Len(derived.features) : IsNumber(derived.features[i].v)

\* what one sub-answer is worth: a number 0..3 itself, a frequency descriptor
\* its rank, anything else 0
SubAnswerWorth(val) ==
    LET text == Strip(Lower(val.s))
    IN IF val.t = "int" /\ val.n \in 0..3 THEN val.n
       ELSE IF ~IsStr(val) THEN 0
       ELSE IF Contains(text, "not at all") \/ text = "0" THEN 0
       ELSE IF Contains(text, "several") \/ text = "1" THEN 1
       ELSE IF Contains(text, "more than half") \/ text = "2" THEN 2
       ELSE IF Contains(text, "nearly every") \/ text = "3" THEN 3
       ELSE 0

RECURSIVE SubAnswersWorth(_, _)
SubAnswersWorth(inputs, i) ==
    IF i = 0 THEN 0
    ELSE SubAnswersWorth(inputs, i - 1)
            + SubAnswerWorth(DictGet(inputs, PHQ9_QUESTIONS[i], PyNone))

\* C25: compute_phq9_score returns the supplied phq9_score when it is present
\* and not null; otherwise the sum over phq9_q1..phq9_q9 in which a number
\* 0..3 counts as itself, a frequency descriptor as 0, 1, 2 or 3 and a
\* missing or unrecognised answer as 0; the result is always an integer in
\* 0..27.
C25_ScoreFromAnswers ==
    LET supplied == DictGet(user_inputs, "phq9_score", PyNone)
        score == compute_phq9_score(user_inputs)
    IN derived # NotRun =>
          /\ score.ok
          /\ score.n \in 0..27
          /\ IF ~IsNone(supplied)
             THEN py_int(supplied).ok /\ score.n = py_int(supplied).n
             ELSE score.n = SubAnswersWorth(user_inputs, Len(PHQ9_QUESTIONS))
          /\ derived.outcome = "returned" => Derived("PHQ9 Score", PyInt(score.n))
\* ---------------------------------------------------------------------------
\* Properties of the prediction endpoints
\* ---------------------------------------------------------------------------
Range(seq) == {seq[i] : i \in 1..Len(seq)}

\* the last request made the call, and it ended with the outcome
HasStep(call, outcome) ==
    \E i \in 1..Len(steps) : steps[i].call = call /\ steps[i].outcome = outcome

Called(call) == \E i \in 1..Len(steps) : steps[i].call = call

StepOf(call) == steps[CHOOSE i \in 1..Len(steps) : steps[i].call = call]

\* C3: for every value the classifier's predict can return, the risk_level
\* the prediction endpoints (predict, predict_minimal, batch_assess) return
\* is a member of the classifier's class list (model.classes_, or the
\* default three-class list when the model has none).
C3_LabelInClassList ==
    /\ (resp.endpoint \in {"predict", "predict_minimal"} /\ resp.status = 200)
          => resp.risk_level.s \in Range(classes_of(model))
    /\ (resp.endpoint = "batch_assess" /\ resp.status = 200)
          => \A i \in 1..Len(resp.results) :
                resp.results[i].status = "success"
                    => resp.results[i].risk_level.s \in Range(classes_of(model))

\* C4: in predict and predict_minimal, a raising predict call ends the
\* request in the prediction-failed error: no label, nothing logged, no
\* explanation computed; a predict_proba call that raises or returns a
\* vector of another length than the class list leaves the request
\* successful, with the resolved label and probabilities null.
C4_ClassifierStepsFailIndependently ==
    resp.endpoint \in {"predict", "predict_minimal"} =>
        /\ HasStep("predict", "raised") =>
              /\ resp.status = 500
              /\ resp.detail = "Prediction failed"
              /\ resp.risk_level = Missing
              /\ predictions_log = <<>>
              /\ ~Called("log_prediction")
              /\ ~Called("get_shap_values")
              /\ resp.shap_explanation.null
        /\ ( /\ HasStep("predict", "returned")
             /\ Called("predict_proba")
             /\ \/ StepOf("predict_proba").outcome = "raised"
                \/ StepOf("predict_proba").value # Len(classes_of(model)) ) =>
              /\ resp.status = 200
              /\ resp.risk_level
                    = PyStr(resolve_label(classes_of(model), StepOf("predict").value))
              /\ resp.probabilities = NullProbabilities

\* predict_proba returned a vector longer than the class list, and the
\* request was answered with a label and null probabilities
C4_ProbaLengthMismatchServed ==
    /\ resp.endpoint = "predict_minimal"
    /\ HasStep("predict_proba", "returned")
    /\ StepOf("predict_proba").value = Len(classes_of(model)) + 1
    /\ resp.status = 200
    /\ resp.probabilities.null

\* the age answer of a request body, looked up without regard to letter
\* case: [found, value] with the value as _clean_value leaves it
AgeAnswer(body) ==
    LET fields == clean_items(payload(body))
        hits == {i \in 1..Len(fields) : Lower(fields[i].k) = "age"}
    IN IF hits = {} THEN [found |-> FALSE, value |-> PyNone]
       ELSE [found |-> TRUE, value |-> fields[CHOOSE i \in hits : TRUE].v]

AgeMalformed(body) ==
    LET a == AgeAnswer(body)
    IN ~a.found \/ IsNone(a.value) \/ ~py_int(a.value).ok

\* C5: in predict_minimal a request whose age is missing or malformed (null
\* after cleaning, or not a number) is answered 422 before the pipeline
\* runs (neither derive_all_features nor the classifier is called), and
\* the age key is recognised whatever its letter case.
C5_MalformedAgeIs422 ==
    [][ (inbox # <<>> /\ Head(inbox).endpoint = "predict_minimal") =>
            /\ AgeMalformed(Head(inbox).body) => (resp'.status = 422 /\ steps' = <<>>)
            /\ ~AgeMalformed(Head(inbox).body) => resp'.status # 422 ]_vars

\* the probabilities the probability step of the last request gave
ProbabilitiesComputed ==
    IF ~Called("predict_proba") THEN NullProbabilities
    ELSE probabilities_of(model, classes_of(model),
                          [ raised |-> StepOf("predict_proba").outcome = "raised",
                            len |-> StepOf("predict_proba").value ])

\* C6: in predict_minimal, whatever the explanation step does (it raises,
\* returns a failure dict, or returns an error dict without a success
\* field), the response is not an error and carries the risk_level and the
\* probabilities computed before the step; shap_explanation is null
\* whenever the explanation did not succeed.
C6_ExplanationNeverEscalates ==
    (resp.endpoint = "predict_minimal" /\ Called("get_shap_values")) =>
        /\ resp.status = 200
        /\ resp.risk_level = PyStr(resolve_label(classes_of(model), StepOf("predict").value))
        /\ resp.probabilities = ProbabilitiesComputed
        /\ StepOf("get_shap_values").outcome # "success" => resp.shap_explanation.null
        /\ StepOf("get_shap_values").outcome = "success" => ~resp.shap_explanation.null

\* the explainer failed on the instance (a failure dict), and the request
\* was answered with its label and without an explanation
C6_ExplanationFailedServed ==
    /\ resp.endpoint = "predict_minimal"
    /\ HasStep("get_shap_values", "failure")
    /\ resp.status = 200
    /\ resp.risk_level # Missing
    /\ resp.shap_explanation.null


\* the answers predict_minimal derives the features from, for a request body
IncomingOf(body) ==
    LET cleaned == clean_items(payload(body))
    IN IF DictHas(cleaned, "Age") /\ ~DictHas(cleaned, "age")
       THEN DictSet(cleaned, "age", DictGet(cleaned, "Age", PyNone))
       ELSE cleaned

\* C26: when the classifier exposes its column list, the row predict_minimal
\* hands to it has exactly those columns in exactly that order: a derived
\* feature outside the list is dropped, and a listed column that is not among
\* the derived features is present with the placeholder None.
C26_RowInExpectedColumnOrder ==
    [][(handed_frame' # NotHanded /\ model.has_feature_names) =>
          LET expected_cols == model.feature_names_in_
              derived_features == derive_all_features(IncomingOf(Head(inbox).body)).features
              row == handed_frame'[1]
          IN /\ Len(handed_frame') = 1
             /\ Len(row) = Len(expected_cols)
             /\ \A i \in 1..Len(row) :
                   /\ row[i].k = expected_cols[i]
                   /\ ~DictHas(derived_features, expected_cols[i]) => row[i].v = PyNone
                   /\ DictHas(derived_features, expected_cols[i]) =>
                         row[i].v = clean_cell(DictGet(derived_features, expected_cols[i],
                                                       PyNone))]_vars

\* a request was answered by the classifier fitted on columns in another
\* order than the derived one, of which one is not derived
C26_UnderivedColumnHanded ==
    /\ model = LocalDatasetEnsemble
    /\ resp.status = 200
    /\ Len(handed_frame) = 1
    /\ Len(handed_frame[1]) = 3
    /\ handed_frame[1][1].k = "Sleep quality"
    /\ handed_frame[1][2] = Entry("Age", PyInt(25))
    /\ handed_frame[1][3] = Entry("Education Level_High School", PyNone)
\* ---------------------------------------------------------------------------
\* Properties of the attribution engine
\* ---------------------------------------------------------------------------
\* the strategies tried for the explained instance, from start-up on
AttemptsMade == init_attempts \o request_attempts

\* C7: the attribution strategies are tried in strict priority order across
\* initialize_shap_explainer and get_shap_values: after a tree attempt that
\* raised (at start-up or for a request) the next attempt is the sampling
\* one; after a sampling attempt that raised the next is the
\* static-importance one (the value proxy when the classifier has no
\* feature_importances_); the value proxy runs only when the classifier has
\* no feature_importances_.
C7_StrictPriorityOrder ==
    (shap_version = "history" /\ explained.called /\ instance.df # <<>>) =>
        /\ \A i \in 1..Len(AttemptsMade) :
              (AttemptsMade[i].strategy = "tree" /\ AttemptsMade[i].outcome = "raised")
                  => /\ i < Len(AttemptsMade)
                     /\ AttemptsMade[i + 1].strategy = "sampling"
        /\ \A i \in 1..Len(AttemptsMade) :
              (AttemptsMade[i].strategy = "sampling" /\ AttemptsMade[i].outcome = "raised")
                  => /\ i < Len(AttemptsMade)
                     /\ AttemptsMade[i + 1].strategy
                            = (IF model.has_feature_importances THEN "static_importance"
                               ELSE "value_proxy")
        /\ \A i \in 1..Len(AttemptsMade) :
              AttemptsMade[i].strategy = "value_proxy" => ~model.has_feature_importances

\* C8: every result get_shap_values returns, on every path, names the
\* strategy that produced it and carries a boolean true-attribution flag,
\* and the flag is true exactly for the tree and the sampling strategy.
C8_ResultNamesStrategy ==
    (explained.called /\ ~explained.result.raised) =>
        /\ explained.result.explainer_type # "missing"
        /\ explained.result.shap_values_available \in {"true", "false"}
        /\ explained.result.shap_values_available = "true"
              <=> explained.result.explainer_type \in {"tree", "permutation"}


\* C21: in every successful attribution result, whichever strategy produced
\* it, top_features is sorted by absolute contribution in descending order,
\* holds exactly min(K, number of features) entries for the requested K, and
\* the direction of each entry follows the sign of its own contribution:
\* positive increases_risk, negative decreases_risk, zero neutral.
C21_TopFeaturesSortedAndSigned ==
    (explained.called /\ explained.result.success = "true") =>
        LET top == explained.result.top_features
        IN /\ \A i \in 1..(Len(top) - 1) :
                 top[i].abs_shap_value >= top[i + 1].abs_shap_value
           /\ \A i \in 1..Len(top) : top[i].abs_shap_value = Abs(top[i].shap_value)
           /\ Len(top) = Min(instance.top_k, explained.result.total_features_analyzed)
           /\ \A i \in 1..Len(top) :
                 top[i].impact = (IF top[i].shap_value > 0 THEN "increases_risk"
                                  ELSE IF top[i].shap_value < 0 THEN "decreases_risk"
                                  ELSE "neutral")

\* the position of the class high in the class ordering of the classifier
HighIndex(m) ==
    CHOOSE p \in 1..Len(classes_of(m)) : classes_of(m)[p] = "high"

\* the explainer output holds one contribution vector per class
MultiClass(out) == out.format \in {"list", "array3d"} /\ Len(out.values) > 1

\* the contributions and the base value of the class high in an output
HighSlice(m, out) ==
    IF MultiClass(out) THEN out.values[HighIndex(m)]
    ELSE IF Len(out.values) > 0 THEN out.values[1] ELSE <<>>

HighBase(m, out) ==
    IF MultiClass(out) THEN out.expected[HighIndex(m)]
    ELSE IF Len(out.expected) > 0 THEN out.expected[1] ELSE 0

\* C22: for a multi-class attribution output, in the list-of-arrays and in
\* the 3-dimensional format, the contributions and the base value that
\* get_shap_values reports are those of the class high, at its position in
\* the class ordering of the classifier (the ordering the prediction
\* endpoints resolve labels with).
C22_HighClassSliceReported ==
    (explained.called /\ explained.result.shap_values_available = "true") =>
        \E out \in ExplainerOutputsHist :
            /\ ~out.raised
            /\ explained.result.base_value = HighBase(model, out)
            /\ \A i \in 1..Len(explained.result.top_features) :
                 \E j \in 1..Len(HighSlice(model, out)) :
                    HighSlice(model, out)[j] = explained.result.top_features[i].shap_value

\* the pairs of explainer and strategy type a finished initialisation leaves
WholeGlobals ==
    { Seen("None", "None"), Seen("TreeExplainer", "tree"),
      Seen("Explainer", "permutation"), Seen("None", "fallback") }

\* C27: the explainer is built only by initialize_shap_explainer in the
\* startup event, which has returned before any request is served, and
\* get_shap_values never builds or replaces it: in every interleaving a
\* request reads an explainer and a strategy type that belong together (never
\* an explainer whose type is still unset or stale, nor the reverse), and
\* reads the same pair for as long as it runs.
C27_ExplainerBuiltBeforeServing ==
    /\ [](\A t \in RequestThreads :
             observers[t].pc # "waiting" =>
                /\ startup_pc = "serving"
                /\ observers[t].entry \in WholeGlobals
                /\ observers[t].entry = Seen(shap_explainer, explainer_type)
                /\ observers[t].compute \in {NotSeen, observers[t].entry})
    /\ [](startup_pc = "serving" =>
             \E tree_build \in BuildOutcomes, sampling_build \in BuildOutcomes :
                Globals = initialize_shap_explainer_hist(ModuleLoaded, model, shap_import,
                                                         tree_build, sampling_build))
    /\ [][(shap_explainer' # shap_explainer \/ explainer_type' # explainer_type) =>
             /\ startup_pc # "serving"
             /\ observers' = observers
             /\ \A t \in RequestThreads : observers[t].pc = "waiting"]_vars

\* the sampling explainer was built after the tree build had failed, one
\* request has computed with it and another has entered
C27_RequestsAfterSecondStrategy ==
    /\ init_attempts = <<Attempt("tree", "init", "raised"), Attempt("sampling", "init", "built")>>
    /\ observers[1].pc = "done"
    /\ observers[1].compute = Seen("Explainer", "permutation")
    /\ observers[2].pc = "computing"
    /\ observers[2].entry = Seen("Explainer", "permutation")
\* ---------------------------------------------------------------------------
\* Properties of the feedback store
\* ---------------------------------------------------------------------------
\* C9: after any sequence of save_prediction and save_feedback calls at
\* most one outcome is stored per session id: the first save_feedback for
\* an id succeeds, every later save_feedback for the same id returns
\* failure and leaves the stored outcome and notes unchanged.
C9_OneOutcomePerSession ==
    [][ /\ \A sid \in SessionIds : Cardinality(RowsOf(feedback', sid)) <= 1
        /\ (last_call'.op = "save_feedback" /\ last_call' # last_call) =>
              IF last_call'.session_id \notin feedback_calls
              THEN last_call'.ok
              ELSE ~last_call'.ok /\ feedback' = feedback ]_vars

\* C10: save_feedback for a session id without a stored prediction is
\* rejected (it returns failure and stores no row), so every feedback row
\* refers to an existing prediction row.
C10_FeedbackRefersToPrediction ==
    \A i \in 1..Len(feedback) : RowsOf(predictions, feedback[i].session_id) # {}

\* the step is a call of save_prediction: neither a query nor the release of
\* a lock
SavePredictionStep ==
    /\ last_call'.op = "save_prediction"
    /\ labeled' = labeled
    /\ write_locked => write_locked'

\* C11: a save_prediction with a session id that is already stored is
\* rejected: it returns failure and leaves the predictions table as it was
\* (the row of the first call keeps its features and label), and the table
\* never holds two rows with the same session id.
C11_DuplicatePredictionRejected ==
    [][ /\ \A sid \in SessionIds : Cardinality(RowsOf(predictions', sid)) <= 1
        /\ (SavePredictionStep /\ RowsOf(predictions, last_call'.session_id) # {})
             => (~last_call'.ok /\ predictions' = predictions) ]_vars

\* a second save_prediction for a stored session id has returned failure
C11_SecondPredictionRefused ==
    /\ last_call.op = "save_prediction"
    /\ ~last_call.ok
    /\ RowsOf(predictions, last_call.session_id) # {}


AllDone == \A w \in Workers : workers[w].pc = "done"

Winners == {w \in Workers : workers[w].pc = "done" /\ workers[w].ok}

\* C12: two concurrent save_prediction calls with the same session id end, in
\* every interleaving, with exactly one success and one failure, and the
\* stored row is the row of the successful call; with distinct ids both
\* succeed.  At no point does a session id have two rows or a row written by
\* a call that failed.
C12_ConcurrentDuplicatesResolved ==
    /\ \A sid \in SessionIds : Cardinality(RowsOf(predictions, sid)) <= 1
    /\ \A i \in 1..Len(predictions) :
         \E w \in Workers : /\ predictions[i] = worker_row(w)
                            /\ workers[w].pc \in {"close", "done"}
                            /\ workers[w].pc = "done" => workers[w].ok
    /\ \A w \in Winners : RowsOf(predictions, workers[w].session_id) # {}
    /\ AllDone =>
         IF workers[1].session_id = workers[2].session_id
         THEN Cardinality(Winners) = 1
         ELSE Winners = Workers

\* both calls used the same id and different labels, and have returned
C12_SameIdRaceDecided ==
    /\ AllDone
    /\ workers[1].session_id = workers[2].session_id
    /\ workers[1].label # workers[2].label
    /\ Cardinality(Winners) = 1
    /\ Len(predictions) = 1

\* the session ids of the rows of a query result
SessionsOf(rows) == {rows[i].session_id : i \in 1..Len(rows)}

\* the session ids with a prediction row and a feedback row whose outcome is
\* not null
LabeledSessions(preds, fb) ==
    {sid \in SessionIds :
        /\ RowsOf(preds, sid) # {}
        /\ \E i \in RowsOf(fb, sid) : fb[i].actual_outcome # SqlNull}

\* C13: after any sequence of save_prediction and save_feedback calls,
\* get_predictions_with_feedback returns exactly the session ids that have a
\* prediction row and a feedback row with a non-null outcome, each at most
\* once, and every returned row pairs a stored prediction with a stored
\* non-null outcome of the same session.
C13_JoinReturnsMatchedPairs ==
    [][ labeled' # labeled =>
          /\ SessionsOf(labeled'.rows) = LabeledSessions(predictions, feedback)
          /\ \A i, j \in 1..Len(labeled'.rows) :
               labeled'.rows[i].session_id = labeled'.rows[j].session_id => i = j
          /\ \A i \in 1..Len(labeled'.rows) :
               /\ labeled'.rows[i].actual_outcome # SqlNull
               /\ \E k \in RowsOf(predictions, labeled'.rows[i].session_id) :
                    predictions[k].predicted_label = labeled'.rows[i].predicted_label
               /\ \E k \in RowsOf(feedback, labeled'.rows[i].session_id) :
                    feedback[k].actual_outcome = labeled'.rows[i].actual_outcome ]_vars

\* the query has returned one pair while another prediction has only a null
\* outcome
C13_OnePairOneUnlabeled ==
    /\ labeled.queried
    /\ labeled.rows = inner_join(predictions, feedback, 1)
    /\ Len(labeled.rows) = 1
    /\ Len(predictions) = 2
    /\ \E i \in 1..Len(feedback) :
         /\ feedback[i].actual_outcome = SqlNull
         /\ RowsOf(predictions, feedback[i].session_id) # {}

\* C14: in predict_with_tracking the follow-up is scheduled after, and only
\* for, a recorded prediction: every follow-up row refers to a session id
\* with a stored prediction, every stored prediction has exactly one
\* follow-up row (reminder_sent = 0, follow_up_completed = 0, 42 days ahead),
\* and the response says follow_up_scheduled only when the row was stored.
C14_FollowUpOnlyForRecorded ==
    /\ \A i \in 1..Len(follow_up_schedules) :
         RowsOf(predictions, follow_up_schedules[i].session_id) # {}
    /\ \A i \in 1..Len(predictions) :
         /\ Cardinality(RowsOf(follow_up_schedules, predictions[i].session_id)) = 1
         /\ \A k \in RowsOf(follow_up_schedules, predictions[i].session_id) :
              /\ follow_up_schedules[k].reminder_sent = 0
              /\ follow_up_schedules[k].follow_up_completed = 0
              /\ follow_up_schedules[k].days_from_now = 42
    /\ (tracked.status = 200 /\ tracked.follow_up_scheduled)
         => RowsOf(follow_up_schedules, tracked.session_id) # {}

\* the reminders sent for the follow-up row id
RemindersOf(id) == {k \in 1..Len(reminders) : reminders[k].id = id}

\* C28: across the runs of send_follow_up_reminders a reminder is sent at
\* most once per follow-up row: a row whose reminder has been sent is not
\* returned by get_pending_follow_ups any more.
C28_ReminderSentOnce ==
    \A id \in 1..Len(follow_up_schedules) :
       /\ Cardinality(RemindersOf(id)) <= 1
       /\ RemindersOf(id) # {} =>
             \A k \in 1..Len(get_pending_follow_ups(follow_up_schedules, today, 1)) :
                get_pending_follow_ups(follow_up_schedules, today, 1)[k] # id
\* ---------------------------------------------------------------------------
\* Properties of the encoder
\* ---------------------------------------------------------------------------
\* the normalised text of the raw value of the request
Normalised == Strip(Lower(py_str(enc_request.raw)))

\* one string is part of the other
SubstringMatch(token, text) == Contains(text, token) \/ Contains(token, text)

\* the codes of a column's table
CodesOf(column_name) ==
    IF column_name \notin DOMAIN LABEL_ENCODINGS THEN {}
    ELSE {LABEL_ENCODINGS[column_name][i][2] : i \in 1..Len(LABEL_ENCODINGS[column_name])}

\* C18: encode_categorical is total: for every column name and raw value it
\* returns the code of the table token the normalised value equals;
\* otherwise the code of the first token, in table order, that is a
\* substring match; otherwise 0, which is also the result for a column
\* without table.  The result is a code of the column's table or 0.
C18_EncodeTotalFirstMatch ==
    enc_result.done =>
        /\ enc_result.code \in CodesOf(enc_request.feature) \cup {0}
        /\ IF enc_request.feature \notin DOMAIN LABEL_ENCODINGS
           THEN enc_result.code = 0
           ELSE LET encoding == LABEL_ENCODINGS[enc_request.feature]
                    n == Len(encoding)
                IN IF \E i \in 1..n : encoding[i][1] = Normalised
                   THEN \E i \in 1..n : /\ encoding[i][1] = Normalised
                                        /\ enc_result.code = encoding[i][2]
                   ELSE IF \E i \in 1..n : SubstringMatch(encoding[i][1], Normalised)
                   THEN \E i \in 1..n :
                          /\ SubstringMatch(encoding[i][1], Normalised)
                          /\ \A j \in 1..(i - 1) : ~SubstringMatch(encoding[j][1], Normalised)
                          /\ enc_result.code = encoding[i][2]
                   ELSE enc_result.code = 0

\* a fragment that is part of two tokens got the code of the first of them
C18_FragmentEncodedAsFirst ==
    /\ enc_request = [feature |-> "PHQ9 Result", raw |-> PyStr("e")]
    /\ enc_result.done
    /\ enc_result.code = 2

\* C19: encode_categorical does not depend on letter case or surrounding
\* blanks: a value, its upper-case form, its lower-case form and the value
\* padded with blanks get the same code, and so does the normalised form
\* encoded again.
C19_EncodeCaseAndBlankInsensitive ==
    enc_result.done =>
        /\ enc_result.of_upper = enc_result.code
        /\ enc_result.of_lower = enc_result.code
        /\ enc_result.of_padded = enc_result.code
        /\ enc_result.of_normalised = enc_result.code

\* a token with a code other than 0 was encoded in all its forms
C19_TokenFormsEncoded ==
    /\ enc_request = [feature |-> "Relationship with the newborn", raw |-> PyStr("Very Good")]
    /\ enc_result.done
    /\ enc_result.of_upper = 3
    /\ enc_result.of_padded = 3
\* ---------------------------------------------------------------------------
\* Properties of the CSV logs
\* ---------------------------------------------------------------------------
\* no two rows carry the same session id
OnePerSession(rows) ==
    \A i, j \in 1..Len(rows) : rows[i].session_id = rows[j].session_id => i = j

\* C20: the labeled training set load_feedback_data builds from the CSV logs
\* holds each session id at most once after any sequence of log_prediction
\* and log_user_feedback calls made by the endpoints: every logged
\* prediction carries a session id of its own, and an outcome is paired
\* with one prediction only.
C20_TrainingSetOnePerSession ==
    /\ OnePerSession(predictions_log)
    /\ training_set.loaded => OnePerSession(training_set.rows)
(***************************************************************************)
(* Properties of the schedule functions and of the chat router             *)
(***************************************************************************)
\* the step is a call of update_retrain_schedule
UpdateScheduleStep ==
    /\ schedule_call'.op = "update_retrain_schedule"
    /\ <<config_file, scheduler, schedule_call>>' # <<config_file, scheduler, schedule_call>>

\* C29: update_retrain_schedule changes only retrain_schedule and
\* last_updated of the persisted config: the last_retrain recorded by
\* trigger_manual_retrain is still the one get_current_schedule reports after
\* a later update, and an invalid schedule name leaves the config and the
\* scheduled jobs unchanged.
C29_UpdateKeepsLastRetrain ==
    [][UpdateScheduleStep =>
          /\ get_schedule_config(config_file').last_retrain
                = get_schedule_config(config_file).last_retrain
          /\ ~schedule_call'.success => (config_file' = config_file /\ scheduler' = scheduler)]_vars

\* a key that names an account: not blank and not the placeholder
UsableKey(api_key) ==
    /\ \E i \in 1..Len(api_key) : CharAt(api_key, i) # " "
    /\ api_key # "your_api_key_here"

====
